---- MODULE Spec2Model ----
(***************************************************************************)
(* The local compute pipeline of substra: the `run-local` command          *)
(* (substra/cli/interface.py, run_local) and the runner it calls           *)
(* (substra/runner.py, compute).  The state is the host filesystem, the    *)
(* images of the container engine, and the position and local variables    *)
(* of one pipeline invocation.                                             *)
(*                                                                         *)
(* Paths are sequences of segments; an absolute path starts with "/".      *)
(* A falsy path (None or '') is the empty sequence.                        *)
(***************************************************************************)
EXTENDS Integers, Sequences, FiniteSets, TLC

VARIABLES
    pc,          \* position of the invocation in run_local / compute
    options,     \* the options run_local was called with
    host0,       \* the host filesystem when the command was entered
    fs,          \* host filesystem: [dirs, files]
    images,      \* engine images: tag -> directory the tag was last built from
    params,      \* compute's parameters and resolved paths
    command,     \* compute_train's local `command`
    call,        \* keyword arguments of the latest containers.run call
    exc,         \* exception raised by the latest containers.run call, if any
    error,       \* exception that escaped run_local / compute, if any
    train_perf,  \* compute's local train_perf
    test_perf,   \* compute's local test_perf
    trace,       \* operations performed by this invocation, in order
    containers,  \* number of containers of this invocation the engine holds
    client,      \* one call of sdk Client.add: its position and locals
    sent,        \* the HTTP requests that call has sent, in order
    inv          \* two invocations on one sandbox root: each one's state

\* The variables the pipeline of one invocation leaves alone.
elsewhere == <<client, sent, inv>>

vars == <<pc, options, host0, fs, images, params, command, call, exc, error,
          train_perf, test_perf, trace, containers, client, sent, inv>>

(***************************************************************************)
(* Bounds.                                                                 *)
(***************************************************************************)
MaxInModels == 2

(***************************************************************************)
(* Module constants of runner.py.                                          *)
(***************************************************************************)
USER == 1000

METRICS_NO_FAKE_Y == "DISABLED"
METRICS_FAKE_Y == "FAKE_Y"

VOLUME_OUTPUT_MODEL == [bind |-> "/sandbox/model", mode |-> "rw"]
VOLUME_OPENER == [bind |-> "/sandbox/opener/__init__.py", mode |-> "ro"]
VOLUME_PRED == [bind |-> "/sandbox/pred", mode |-> "rw"]
VOLUME_DATA == [bind |-> "/sandbox/data", mode |-> "ro"]
VOLUME_LOCAL == [bind |-> "/sandbox/local", mode |-> "rw"]

DOCKER_ALGO_TAG == "algo_run_local"
DOCKER_METRICS_TAG == "metrics_run_local"
MODEL_FILENAME == "model"

(***************************************************************************)
(* Paths (os.path).                                                        *)
(***************************************************************************)
None == <<>>

\* The working directory of the process.
Cwd == <<"/", "cwd">>

IsAbs(path) == Len(path) > 0 /\ path[1] = "/"

RECURSIVE NormPath(_)
\* os.path.normpath on segments: "." segments are dropped.
NormPath(path) ==
    IF path = <<>> THEN <<>>
    ELSE IF Head(path) = "." THEN NormPath(Tail(path))
    ELSE <<Head(path)>> \o NormPath(Tail(path))

\* os.path.abspath: normpath(join(cwd, path)).
AbsPath(path) ==
    IF IsAbs(path) THEN NormPath(path) ELSE NormPath(Cwd \o path)

\* os.path.join(a, b): an absolute b discards a.
PathJoin(a, b) == IF IsAbs(b) THEN b ELSE a \o b

_get_abspath(path) == IF path # <<>> THEN AbsPath(path) ELSE path

IsPrefix(p, q) == Len(p) <= Len(q) /\ SubSeq(q, 1, Len(p)) = p

\* Immediate parent directory of a path.
DirName(path) == SubSeq(path, 1, Len(path) - 1)

(***************************************************************************)
(* Host filesystem.  fs.dirs is the set of directories, fs.files maps each *)
(* regular file to [by, json, obj]: who wrote it ("earlier": before this   *)
(* invocation, "run": a container of this invocation), whether it parses   *)
(* as a JSON object, and the object's key/value pairs.                     *)
(***************************************************************************)
Exists(f, path) == path \in f.dirs \/ path \in DOMAIN f.files

Restrict(fn, S) == [x \in S |-> fn[x]]

\* f with the regular file `path` holding `content`.
WithFile(f, path, content) ==
    [f EXCEPT !.files = [p \in DOMAIN f.files \cup {path} |->
                            IF p = path THEN content ELSE f.files[p]]]

\* f without the regular files in `paths`.
WithoutFiles(f, paths) ==
    [f EXCEPT !.files = Restrict(f.files, DOMAIN f.files \ paths)]

\* Mutant: only the files directly in the directory go, its subdirectories
\* and what they hold stay.
RmTree_TopLevelOnly(f, path) ==
    [dirs |-> f.dirs,
     files |-> Restrict(f.files, {p \in DOMAIN f.files : DirName(p) # path})]

\* shutil.rmtree(path) on a directory: the whole subtree goes.
RmTree(f, path) ==
    [dirs |-> {d \in f.dirs : ~IsPrefix(path, d)},
     files |-> Restrict(f.files, {p \in DOMAIN f.files : ~IsPrefix(path, p)})]

\* os.makedirs(path): the directory and its missing ancestors.
MakeDirs(f, path) ==
    [f EXCEPT !.dirs = f.dirs \cup
        {SubSeq(path, 1, n) : n \in 1..Len(path)}]

_create_directory(f, directory) ==
    IF ~Exists(f, directory) THEN MakeDirs(f, directory) ELSE f

\* The five _create_directory calls of clean_sandbox, in order.
clean_sandbox_dirs(f, paths) ==
    LET f1 == _create_directory(f, paths.compute_path)
        f2 == _create_directory(f1, paths.local_path)
        f3 == _create_directory(f2, paths.train_pred_path)
        f4 == _create_directory(f3, paths.test_pred_path)
    IN  _create_directory(f4, paths.outmodel_path)

\* Mutant: the compute root is not removed first.
clean_sandbox_NoRmtree(f, paths) ==
    IF paths.compute_path \in DOMAIN f.files
    THEN [ok |-> FALSE, fs |-> f]
    ELSE [ok |-> TRUE, fs |-> clean_sandbox_dirs(f, paths)]

\* Mutant: FileNotFoundError is not caught.
clean_sandbox_MissingIsError(f, paths) ==
    IF paths.compute_path \notin f.dirs
    THEN [ok |-> FALSE, fs |-> f]
    ELSE [ok |-> TRUE,
          fs |-> clean_sandbox_dirs(RmTree(f, paths.compute_path), paths)]

\* clean_sandbox: [ok, fs].  rmtree raises FileNotFoundError on a missing
\* path (caught) and NotADirectoryError on a regular file (not caught).
clean_sandbox(f, paths) ==
    IF paths.compute_path \in DOMAIN f.files
    THEN [ok |-> FALSE, fs |-> f]
    ELSE LET cleared == IF paths.compute_path \in f.dirs
                        THEN RmTree(f, paths.compute_path)
                        ELSE f
         IN  [ok |-> TRUE, fs |-> clean_sandbox_dirs(cleared, paths)]

(***************************************************************************)
(* File contents.                                                          *)
(***************************************************************************)
\* An opaque file (a model, a prediction file, anything that is not JSON).
Blob(who) == [by |-> who, json |-> FALSE, obj |-> {}]

\* A file holding the JSON object with the given key/value pairs.
Json(who, pairs) == [by |-> who, json |-> TRUE, obj |-> pairs]

\* What a container may leave in perf.json: not JSON at all, an object
\* without the key, and two objects with it (one with another key too).
\* Scores are in hundredths.
PerfDocs(who) ==
    { Blob(who),
      Json(who, {<<"other", 1>>}),
      Json(who, {<<"all", 42>>}),
      Json(who, {<<"all", 100>>, <<"other", 1>>}) }

(***************************************************************************)
(* The command line: what the caller may pass to run-local.                *)
(***************************************************************************)
AlgoArg == <<"algo">>
MetricsArg == <<"metrics">>
TrainOpenerArg == <<"train", "opener.py">>
TestOpenerArg == <<"test", "opener.py">>
TrainDataArg == <<"train_data">>
TestDataArg == <<".", "test_data">>

\* --rank: omitted, or an integer.
RankArgs == {<<>>, <<1>>}

\* Candidate --inmodel files: a file of the working directory given by a
\* relative path, a file given by an absolute path, and the output model of
\* an earlier run inside the sandbox.
InModelArgs ==
    { <<"m1">>, <<"/", "data", "m2">>, <<"sandbox", "model", "model">> }

InModelLists == UNION {[1..n -> InModelArgs] : n \in 0..MaxInModels}

\* compute's keyword defaults (runner.py, lines 214-216).
DefaultOutmodelPath == <<"model">>
DefaultComputePath == <<".", "sandbox">>
DefaultLocalPath == <<"local">>

SandboxRoot == AbsPath(DefaultComputePath)

(***************************************************************************)
(* Hashing and rendering.                                                  *)
(***************************************************************************)
RECURSIVE PathStr(_)
\* The path as the string Python holds: "/cwd/m1".
PathStr(path) ==
    IF path = <<>> THEN ""
    ELSE IF Len(path) = 1 THEN Head(path)
    ELSE IF Head(path) = "/" THEN "/" \o PathStr(Tail(path))
    ELSE Head(path) \o "/" \o PathStr(Tail(path))

\* hashlib.sha256(s.encode()).hexdigest(), idealised as collision free: the
\* digest determines the hashed string and nothing else.
Sha256Hex(s) == "sha256:" \o s

RECURSIVE JoinSpace(_)
\* ' '.join(words)
JoinSpace(words) ==
    IF words = <<>> THEN ""
    ELSE IF Len(words) = 1 THEN Head(words)
    ELSE Head(words) \o " " \o JoinSpace(Tail(words))

(***************************************************************************)
(* The host before the invocation.  Outside the sandbox there are the two  *)
(* input-model files; the sandbox root is absent, empty, a regular file,   *)
(* or holds what an earlier run (and the user) left behind.                *)
(***************************************************************************)
OutsideDirs == {<<"/">>, <<"/", "cwd">>, <<"/", "data">>}

OutsideFiles ==
    [p \in {<<"/", "cwd", "m1">>, <<"/", "data", "m2">>} |-> Blob("earlier")]

HostWith(dirs, files) ==
    [dirs |-> OutsideDirs \cup dirs,
     files |-> [p \in DOMAIN OutsideFiles \cup DOMAIN files |->
                   IF p \in DOMAIN files THEN files[p] ELSE OutsideFiles[p]]]

PriorAbsent == HostWith({}, <<>>)

PriorEmpty == HostWith({SandboxRoot}, <<>>)

PriorRegularFile ==
    HostWith({}, [p \in {SandboxRoot} |-> Blob("earlier")])

PriorEarlierRun ==
    HostWith(
        {SandboxRoot} \cup
            {SandboxRoot \o <<d>> :
                d \in {"local", "pred_train", "pred_test", "model", "old"}},
        [p \in { SandboxRoot \o <<"model", "model">>,
                 SandboxRoot \o <<"model", Sha256Hex("/cwd/m1")>>,
                 SandboxRoot \o <<"pred_train", "pred">>,
                 SandboxRoot \o <<"pred_train", "perf.json">>,
                 SandboxRoot \o <<"pred_test", "pred">>,
                 SandboxRoot \o <<"pred_test", "perf.json">>,
                 SandboxRoot \o <<"local", "tmp">>,
                 SandboxRoot \o <<"old", "junk">>,
                 SandboxRoot \o <<"notes">> } |->
            IF p[Len(p)] = "perf.json"
            THEN Json("earlier", {<<"all", 42>>})
            ELSE Blob("earlier")])

PriorHosts == {PriorAbsent, PriorEmpty, PriorRegularFile, PriorEarlierRun}

(***************************************************************************)
(* Exceptions.                                                             *)
(***************************************************************************)
NoError == [type |-> "none", exit_status |-> 0, stderr |-> "", msg |-> ""]

Raised(type, msg) ==
    [type |-> type, exit_status |-> 0, stderr |-> "", msg |-> msg]

NoParams ==
    [algo_path |-> <<>>, train_opener_file |-> <<>>, test_opener_file |-> <<>>,
     metrics_path |-> <<>>, train_data_path |-> <<>>, test_data_path |-> <<>>,
     fake_data_samples |-> FALSE, rank |-> <<>>, inmodels |-> <<>>,
     compute_path |-> <<>>, local_path |-> <<>>, train_pred_path |-> <<>>,
     test_pred_path |-> <<>>, outmodel_path |-> <<>>, outmodel_file |-> <<>>]

NoOptions ==
    [fake_data_samples |-> FALSE, train_data_samples |-> <<>>,
     test_data_samples |-> <<>>, rank |-> <<>>, inmodels |-> <<>>]

NoCall ==
    [name |-> "", command |-> "", volumes |-> <<>>, remove |-> FALSE,
     user |-> 0, userns_mode |-> ""]

NoScore == {}

\* One operation of the invocation, as the engine or the host sees it.
Op(op, tag, path, rm, cmd, mounts) ==
    [op |-> op, tag |-> tag, path |-> path, rm |-> rm, cmd |-> cmd,
     mounts |-> mounts]

\* An operation on the host filesystem.
HostOp(op, path) == Op(op, "", path, FALSE, "", {})

\* No call of Client.add is under way.
NoClient ==
    [pc |-> "idle", retry_timeout |-> 0, exist_ok |-> FALSE,
     response |-> [fault |-> "", status |-> 0, pkhash |-> "", json |-> FALSE],
     key |-> "", waited |-> 0, raised |-> "", result |-> ""]

\* No second invocation shares the sandbox root.
NoInvocations == <<>>

Init ==
    /\ pc = "cli"
    /\ options = NoOptions
    /\ fs \in PriorHosts
    /\ host0 = fs
    /\ images = [t \in {DOCKER_ALGO_TAG, DOCKER_METRICS_TAG} |-> <<>>]
    /\ params = NoParams
    /\ command = ""
    /\ call = NoCall
    /\ exc = NoError
    /\ error = NoError
    /\ train_perf = NoScore
    /\ test_perf = NoScore
    /\ trace = <<>>
    /\ containers = 0
    /\ client = NoClient
    /\ sent = <<>>
    /\ inv = NoInvocations

(***************************************************************************)
(* run_local (cli/interface.py) and the head of compute (runner.py).       *)
(***************************************************************************)
\* Mutant: the check of --fake-data-samples against the data options is
\* missing.
run_local_usage_NoFakeCheck(fake_data_samples, train_data_samples, test_data_samples) ==
    LET train == train_data_samples # <<>>
        test == test_data_samples # <<>>
    IN  IF ~fake_data_samples /\ ~train /\ ~test THEN "--fake-data-samples"
        ELSE IF ~fake_data_samples /\ train /\ ~test THEN "--test-data-samples"
        ELSE IF ~fake_data_samples /\ ~train /\ test THEN "--train-data-samples"
        ELSE ""

\* Mutant: the check for a missing --test-data-samples is missing.
run_local_usage_NoTestCheck(fake_data_samples, train_data_samples, test_data_samples) ==
    LET train == train_data_samples # <<>>
        test == test_data_samples # <<>>
    IN  IF fake_data_samples /\ (train \/ test) THEN "--fake-data-samples"
        ELSE IF ~fake_data_samples /\ ~train /\ ~test THEN "--fake-data-samples"
        ELSE IF ~fake_data_samples /\ ~train /\ test THEN "--train-data-samples"
        ELSE ""

\* The four option checks of run_local, in order: "" when the options pass,
\* else the option the BadOptionUsage names.
run_local_usage(fake_data_samples, train_data_samples, test_data_samples) ==
    LET train == train_data_samples # <<>>
        test == test_data_samples # <<>>
    IN  IF fake_data_samples /\ (train \/ test) THEN "--fake-data-samples"
        ELSE IF ~fake_data_samples /\ ~train /\ ~test THEN "--fake-data-samples"
        ELSE IF ~fake_data_samples /\ train /\ ~test THEN "--test-data-samples"
        ELSE IF ~fake_data_samples /\ ~train /\ test THEN "--train-data-samples"
        ELSE ""

\* compute, lines 218-232: absolute paths of the assets and of the sandbox,
\* from the keyword arguments a of the call.
compute_paths(a) ==
    LET compute_path == _get_abspath(DefaultComputePath)
        outmodel_path == PathJoin(compute_path, DefaultOutmodelPath)
    IN  [algo_path |-> _get_abspath(a.algo_path),
         train_opener_file |-> _get_abspath(a.train_opener_file),
         test_opener_file |-> _get_abspath(a.test_opener_file),
         train_data_path |-> _get_abspath(a.train_data_path),
         test_data_path |-> _get_abspath(a.test_data_path),
         metrics_path |-> _get_abspath(a.metrics_path),
         fake_data_samples |-> a.fake_data_samples,
         rank |-> a.rank,
         inmodels |-> a.inmodels,
         compute_path |-> compute_path,
         local_path |-> PathJoin(compute_path, DefaultLocalPath),
         train_pred_path |-> PathJoin(compute_path, <<"pred_train">>),
         test_pred_path |-> PathJoin(compute_path, <<"pred_test">>),
         outmodel_path |-> outmodel_path,
         outmodel_file |-> PathJoin(outmodel_path, <<MODEL_FILENAME>>)]

\* run_local: the option checks, then the call of compute up to the point
\* where the sandbox is about to be cleaned.  click has checked that every
\* --inmodel file exists and has replaced an omitted --rank by 0.
RunLocal ==
    /\ pc = "cli"
    /\ \E fake_data_samples \in BOOLEAN,
          train_data_samples \in {None, TrainDataArg},
          test_data_samples \in {None, TestDataArg},
          rank_arg \in RankArgs,
          inmodels \in InModelLists :
        /\ \A i \in DOMAIN inmodels : AbsPath(inmodels[i]) \in DOMAIN fs.files
        /\ options' = [fake_data_samples |-> fake_data_samples,
                       train_data_samples |-> train_data_samples,
                       test_data_samples |-> test_data_samples,
                       rank |-> rank_arg, inmodels |-> inmodels]
        /\ LET usage == run_local_usage(fake_data_samples,
                                        train_data_samples, test_data_samples)
               rank == IF rank_arg = <<>> THEN <<0>> ELSE rank_arg
           IN  IF usage # ""
               THEN /\ pc' = "usage_error"
                    /\ error' = Raised("BadOptionUsage", usage)
                    /\ params' = params
               ELSE /\ pc' = "clean_sandbox"
                    /\ error' = error
                    /\ params' = compute_paths(
                           [algo_path |-> AlgoArg,
                            train_opener_file |-> TrainOpenerArg,
                            test_opener_file |-> TestOpenerArg,
                            metrics_path |-> MetricsArg,
                            train_data_path |-> train_data_samples,
                            test_data_path |-> test_data_samples,
                            fake_data_samples |-> fake_data_samples,
                            rank |-> rank,
                            inmodels |-> inmodels])
    /\ UNCHANGED <<elsewhere, containers, host0, fs, images, command, call, exc, train_perf,
                   test_perf, trace>>

\* compute, line 236.
CleanSandbox ==
    /\ pc = "clean_sandbox"
    /\ LET r == clean_sandbox(fs, params)
       IN  /\ fs' = r.fs
           /\ trace' = Append(trace, HostOp("reset", params.compute_path))
           /\ IF r.ok
              THEN pc' = "train_build" /\ error' = error
              ELSE pc' = "failed" /\
                   error' = Raised("NotADirectoryError",
                                   PathStr(params.compute_path))
    /\ UNCHANGED <<elsewhere, containers, options, host0, images, params, command, call, exc,
                   train_perf, test_perf>>

(***************************************************************************)
(* The container engine.                                                   *)
(***************************************************************************)
\* dict[key] = value
DictSet(d, key, value) ==
    [k \in DOMAIN d \cup {key} |-> IF k = key THEN value ELSE d[k]]

\* A file that is not there.
Absent == [by |-> "nobody", json |-> FALSE, obj |-> {}]

\* What a container may write under a mount point, by file name.
ContainerWrites(bind) ==
    IF bind = VOLUME_OUTPUT_MODEL.bind
    THEN [n \in {MODEL_FILENAME} |-> {Blob("run")}]
    ELSE IF bind = VOLUME_PRED.bind
    THEN [n \in {"pred", "perf.json"} |->
             IF n = "pred" THEN {Blob("run")} ELSE PerfDocs("run")]
    ELSE <<>>

\* The files a container started with `volumes` can reach for writing: the
\* files of its read-write mounted directories and those it may create.
Reachable(f, volumes) ==
    UNION { {p \in DOMAIN f.files : DirName(p) = h} \cup
            {h \o <<n>> : n \in DOMAIN ContainerWrites(volumes[h].bind)} :
            h \in {k \in DOMAIN volumes :
                      volumes[k].mode = "rw" /\ k \in f.dirs} }

\* What the container may make of file p: leave it, remove it, write it.
FileOutcomes(f, volumes, p) ==
    LET w == ContainerWrites(volumes[DirName(p)].bind)
        n == p[Len(p)]
    IN  {Absent}
        \cup (IF p \in DOMAIN f.files THEN {f.files[p]} ELSE {})
        \cup (IF n \in DOMAIN w THEN w[n] ELSE {})

SetFile(f, p, content) ==
    IF content = Absent THEN WithoutFiles(f, {p}) ELSE WithFile(f, p, content)

RECURSIVE ContainerEffects(_, _, _, _)
\* Every filesystem a container can leave behind, starting from one of F:
\* each reachable file of `todo` is left, removed or written.
ContainerEffects(F, f0, volumes, todo) ==
    IF todo = {} THEN F
    ELSE LET p == CHOOSE q \in todo : TRUE
         IN  ContainerEffects(
                 {SetFile(f, p, c) :
                     f \in F, c \in FileOutcomes(f0, volumes, p)},
                 f0, volumes, todo \ {p})

\* ContainerError: the process in the container exited non-zero.  Its stderr
\* is bytes that decode as UTF-8, bytes that do not, or None.
ContainerError(stderr) ==
    [type |-> "ContainerError", exit_status |-> 1, stderr |-> stderr,
     msg |-> ""]

ContainerErrors ==
    {ContainerError(e) : e \in {"boom", "<not utf-8>", "<None>"}}

\* An error of the engine itself (image missing, mount failure).
APIError == Raised("APIError", "engine")

\* e.stderr.decode('utf-8'): [ok, text]
DecodeUtf8(stderr) ==
    IF stderr \in {"<not utf-8>", "<None>"}
    THEN [ok |-> FALSE, text |-> ""]
    ELSE [ok |-> TRUE, text |-> stderr]

\* Mutant: a build that fails is passed over and the pipeline goes on.
_docker_build_FailureIgnored(at, dockerfile_path, name, rm, next) ==
    /\ pc = at
    /\ trace' = Append(trace, Op("build", name, dockerfile_path, rm, "", {}))
    /\ \/ images' = [images EXCEPT ![name] = dockerfile_path]
       \/ images' = images
    /\ pc' = next
    /\ error' = error
    /\ UNCHANGED <<elsewhere, containers, options, host0, fs, params, command, call, exc,
                   train_perf, test_perf>>

\* _docker_build: docker_client.images.build(path, tag, rm) returns, and the
\* tag names the new image, or raises, and the exception escapes compute.
_docker_build(at, dockerfile_path, name, rm, next) ==
    /\ pc = at
    /\ trace' = Append(trace, Op("build", name, dockerfile_path, rm, "", {}))
    /\ \/ /\ images' = [images EXCEPT ![name] = dockerfile_path]
          /\ pc' = next
          /\ error' = error
       \/ /\ images' = images
          /\ pc' = "failed"
          /\ error' = Raised("BuildError", name)
    /\ UNCHANGED <<elsewhere, containers, options, host0, fs, params, command, call, exc,
                   train_perf, test_perf>>

\* Mutant: _docker_run keeps its containers by default.
remove_default_False == FALSE

\* _docker_run, line 81: the default of its `remove` parameter, which no
\* caller in runner.py overrides.
remove_default == TRUE

\* Mutant: the call leaves user and userns_mode to the engine's defaults.
containers_run_DefaultUser(at, name, cmd, volumes, next) ==
    /\ pc = at
    /\ call' = [name |-> name, command |-> cmd, volumes |-> volumes,
                remove |-> remove_default, user |-> 0, userns_mode |-> ""]
    /\ trace' = Append(trace, Op("run", name, <<>>, FALSE, cmd, DOMAIN volumes))
    /\ pc' = next
    /\ \/ /\ fs' \in ContainerEffects({fs}, fs, volumes, Reachable(fs, volumes))
          /\ exc' \in {NoError} \cup ContainerErrors
          /\ containers' = IF call'.remove THEN containers ELSE containers + 1
       \/ /\ fs' = fs
          /\ exc' = APIError
          /\ containers' = containers
    /\ UNCHANGED <<elsewhere, options, host0, images, params, command, error,
                   train_perf, test_perf>>

\* _docker_run, lines 91-93: docker_client.containers.run(...) runs the
\* container to its end and returns or raises.  A container that has run
\* is removed by the engine when the call asked for it (remove=...); a
\* call the engine refuses has started no container.
containers_run(at, name, cmd, volumes, next) ==
    /\ pc = at
    /\ call' = [name |-> name, command |-> cmd, volumes |-> volumes,
                remove |-> remove_default, user |-> USER,
                userns_mode |-> "host"]
    /\ trace' = Append(trace, Op("run", name, <<>>, FALSE, cmd, DOMAIN volumes))
    /\ pc' = next
    /\ \/ /\ fs' \in ContainerEffects({fs}, fs, volumes, Reachable(fs, volumes))
          /\ exc' \in {NoError} \cup ContainerErrors
          /\ containers' = IF call'.remove THEN containers ELSE containers + 1
       \/ /\ fs' = fs
          /\ exc' = APIError
          /\ containers' = containers
    /\ UNCHANGED <<elsewhere, options, host0, images, params, command, error,
                   train_perf, test_perf>>

\* Mutant: the message leaves the exit status out.
docker_run_msg_NoStatus(cmd, name, exit_status, err) ==
    "Command '" \o cmd \o "' in image '" \o name
        \o "' returned non-zero exit status:\n" \o err

\* The message of the exception _docker_run raises, lines 100-103.
docker_run_msg(cmd, name, exit_status, err) ==
    "Command '" \o cmd \o "' in image '" \o name
        \o "' returned non-zero exit status " \o ToString(exit_status)
        \o ":\n" \o err

\* Mutant: a ContainerError whose stderr does not decode is dropped.
docker_run_raises_Swallow(e, cmd, name) ==
    IF e.type = "ContainerError"
    THEN LET err == DecodeUtf8(e.stderr)
         IN  IF ~err.ok THEN NoError
             ELSE Raised("Exception",
                         docker_run_msg(cmd, name, e.exit_status, err.text))
    ELSE e

\* Mutant: a standard error that does not decode is reported as empty.
docker_run_raises_DecodeLenient(e, cmd, name) ==
    IF e.type = "ContainerError"
    THEN Raised("Exception",
                docker_run_msg(cmd, name, e.exit_status,
                               DecodeUtf8(e.stderr).text))
    ELSE e

\* Mutant: every exception of the call is caught and reported as a failed
\* command.
docker_run_raises_CatchAll(e, cmd, name) ==
    IF e.type = "ContainerError"
    THEN LET err == DecodeUtf8(e.stderr)
         IN  IF ~err.ok THEN e
             ELSE Raised("Exception",
                         docker_run_msg(cmd, name, e.exit_status, err.text))
    ELSE IF e # NoError
    THEN Raised("Exception", docker_run_msg(cmd, name, e.exit_status, e.msg))
    ELSE e

\* _docker_run, lines 94-107: what escapes _docker_run, NoError when it
\* returns.
docker_run_raises(e, cmd, name) ==
    IF e.type = "ContainerError"
    THEN LET err == DecodeUtf8(e.stderr)
         IN  IF ~err.ok THEN e
             ELSE Raised("Exception",
                         docker_run_msg(cmd, name, e.exit_status, err.text))
    ELSE e

\* Mutant: the sandbox is removed when the run has failed.
_docker_run_Cleanup(at, next) ==
    /\ pc = at
    /\ LET e == docker_run_raises(exc, call.command, call.name)
       IN  IF e = NoError
           THEN pc' = next /\ error' = error /\ fs' = fs
           ELSE pc' = "failed" /\ error' = e /\
                fs' = RmTree(fs, params.compute_path)
    /\ UNCHANGED <<elsewhere, containers, options, host0, images, params, command, call, exc,
                   train_perf, test_perf, trace>>

_docker_run(at, next) ==
    /\ pc = at
    /\ LET e == docker_run_raises(exc, call.command, call.name)
       IN  IF e = NoError
           THEN pc' = next /\ error' = error
           ELSE pc' = "failed" /\ error' = e
    /\ UNCHANGED <<elsewhere, containers, options, host0, fs, images, params, command, call, exc,
                   train_perf, test_perf, trace>>

(***************************************************************************)
(* compute_train.                                                          *)
(***************************************************************************)
\* Line 116.
ComputeTrainBuild ==
    _docker_build("train_build", params.algo_path, DOCKER_ALGO_TAG, FALSE,
                  "train_link")

\* Mutant: the train data directory is mounted for synthetic data too.
train_volumes_DataAlways(q) ==
    DictSet(DictSet(DictSet(DictSet(DictSet(<<>>,
        q.outmodel_path, VOLUME_OUTPUT_MODEL),
        q.train_pred_path, VOLUME_PRED),
        q.local_path, VOLUME_LOCAL),
        q.train_opener_file, VOLUME_OPENER),
        q.train_data_path, VOLUME_DATA)

\* Lines 123-129.
train_volumes(q) ==
    LET volumes ==
            DictSet(DictSet(DictSet(DictSet(<<>>,
                q.outmodel_path, VOLUME_OUTPUT_MODEL),
                q.train_pred_path, VOLUME_PRED),
                q.local_path, VOLUME_LOCAL),
                q.train_opener_file, VOLUME_OPENER)
    IN  IF ~q.fake_data_samples
        THEN DictSet(volumes, q.train_data_path, VOLUME_DATA)
        ELSE volumes

\* Mutant: the path is hashed as given, not made absolute.
model_hash_AsGiven(inmodel) == Sha256Hex(PathStr(inmodel))

\* Mutant: the key is the hash of what the input model contains.
model_hash_Content(inmodel) ==
    LET src == AbsPath(inmodel)
    IN  Sha256Hex(IF src \notin DOMAIN fs.files THEN ""
                  ELSE IF fs.files[src].json THEN "json" ELSE "blob")

\* Line 143.
model_hash(inmodel) == Sha256Hex(PathStr(AbsPath(inmodel)))

RECURSIVE link_inmodels_SkipsMissing(_, _, _, _)
\* Mutant: an input model that is not there is passed over.
link_inmodels_SkipsMissing(f, outmodel_path, inmodels, model_keys) ==
    IF inmodels = <<>>
    THEN [error |-> NoError, fs |-> f, model_keys |-> model_keys]
    ELSE LET src == AbsPath(Head(inmodels))
             dst == PathJoin(outmodel_path, <<model_hash(Head(inmodels))>>)
         IN  IF src \notin DOMAIN f.files
             THEN link_inmodels_SkipsMissing(f, outmodel_path, Tail(inmodels),
                                             model_keys)
             ELSE IF Exists(f, dst)
             THEN [error |-> Raised("FileExistsError", PathStr(dst)),
                   fs |-> f, model_keys |-> model_keys]
             ELSE link_inmodels_SkipsMissing(
                      WithFile(f, dst, f.files[src]), outmodel_path,
                      Tail(inmodels),
                      Append(model_keys, model_hash(Head(inmodels))))

RECURSIVE link_inmodels_Overwrites(_, _, _, _)
\* Mutant: a link whose name is taken replaces the entry of that name.
link_inmodels_Overwrites(f, outmodel_path, inmodels, model_keys) ==
    IF inmodels = <<>>
    THEN [error |-> NoError, fs |-> f, model_keys |-> model_keys]
    ELSE LET src == AbsPath(Head(inmodels))
             dst == PathJoin(outmodel_path, <<model_hash(Head(inmodels))>>)
         IN  IF src \notin DOMAIN f.files
             THEN [error |-> Raised("FileNotFoundError", PathStr(src)),
                   fs |-> f, model_keys |-> model_keys]
             ELSE link_inmodels_Overwrites(
                      WithFile(f, dst, f.files[src]), outmodel_path,
                      Tail(inmodels),
                      Append(model_keys, model_hash(Head(inmodels))))

RECURSIVE link_inmodels(_, _, _, _)
\* Lines 141-147, the loop over inmodels: [error, fs, model_keys].  os.link
\* raises when the source is missing or the destination exists; the links
\* made before stay.
link_inmodels(f, outmodel_path, inmodels, model_keys) ==
    IF inmodels = <<>>
    THEN [error |-> NoError, fs |-> f, model_keys |-> model_keys]
    ELSE LET src == AbsPath(Head(inmodels))
             dst == PathJoin(outmodel_path, <<model_hash(Head(inmodels))>>)
         IN  IF src \notin DOMAIN f.files
             THEN [error |-> Raised("FileNotFoundError", PathStr(src)),
                   fs |-> f, model_keys |-> model_keys]
             ELSE IF Exists(f, dst)
             THEN [error |-> Raised("FileExistsError", PathStr(dst)),
                   fs |-> f, model_keys |-> model_keys]
             ELSE link_inmodels(WithFile(f, dst, f.files[src]), outmodel_path,
                                Tail(inmodels),
                                Append(model_keys, model_hash(Head(inmodels))))

\* Mutant: the rank is tested for truth, so that rank 0 is left out.
train_command_RankTruthy(fake_data_samples, rank, model_keys) ==
    LET c1 == "train"
        c2 == IF fake_data_samples THEN c1 \o " --fake-data" ELSE c1
        c3 == IF rank # <<>> /\ rank # <<0>>
              THEN c2 \o " --rank " \o ToString(rank[1]) ELSE c2
    IN  IF model_keys # <<>> THEN c3 \o " " \o JoinSpace(model_keys) ELSE c3

\* Mutant: the keys are appended without the test for an empty list.
train_command_AlwaysJoin(fake_data_samples, rank, model_keys) ==
    LET c1 == "train"
        c2 == IF fake_data_samples THEN c1 \o " --fake-data" ELSE c1
        c3 == IF rank # <<>> THEN c2 \o " --rank " \o ToString(rank[1]) ELSE c2
    IN  c3 \o " " \o JoinSpace(model_keys)

\* Lines 131-136 and 149-151: the command, given the keys of the linked
\* models.
train_command(fake_data_samples, rank, model_keys) ==
    LET c1 == "train"
        c2 == IF fake_data_samples THEN c1 \o " --fake-data" ELSE c1
        c3 == IF rank # <<>> THEN c2 \o " --rank " \o ToString(rank[1]) ELSE c2
    IN  IF model_keys # <<>> THEN c3 \o " " \o JoinSpace(model_keys) ELSE c3

\* Lines 131-151: the command is built and the input models are linked.
ComputeTrainLink ==
    /\ pc = "train_link"
    /\ LET r == IF params.inmodels # <<>>
                THEN link_inmodels(fs, params.outmodel_path,
                                   params.inmodels, <<>>)
                ELSE [error |-> NoError, fs |-> fs, model_keys |-> <<>>]
       IN  /\ fs' = r.fs
           /\ trace' = trace \o
                  [i \in 1..Len(r.model_keys) |->
                      HostOp("link", PathJoin(params.outmodel_path,
                                              <<r.model_keys[i]>>))]
           /\ IF r.error = NoError
              THEN /\ pc' = "train_run"
                   /\ command' = train_command(params.fake_data_samples,
                                               params.rank, r.model_keys)
                   /\ error' = error
              ELSE /\ pc' = "failed"
                   /\ command' = command
                   /\ error' = r.error
    /\ UNCHANGED <<elsewhere, containers, options, host0, images, params, call, exc, train_perf,
                   test_perf>>

\* Lines 153-154, the call.
ComputeTrainRun ==
    containers_run("train_run", DOCKER_ALGO_TAG, command, train_volumes(params),
                   "train_run_ret")

\* Lines 153-154, the return.
ComputeTrainRunReturn == _docker_run("train_run_ret", "train_check")

\* Mutant: the test looks at the output-model directory, not at the file.
outmodel_exists_Directory(f, outmodel_file) == Exists(f, DirName(outmodel_file))

\* Lines 156-157.
outmodel_exists(f, outmodel_file) == Exists(f, outmodel_file)

\* Mutant: the output model is not checked.
ComputeTrainCheck_Skipped ==
    /\ pc = "train_check"
    /\ pc' = "train_build_metrics"
    /\ UNCHANGED <<elsewhere, containers, options, host0, fs, images, params, command, call, exc,
                   error, train_perf, test_perf, trace>>

ComputeTrainCheck ==
    /\ pc = "train_check"
    /\ trace' = Append(trace, HostOp("check", params.outmodel_file))
    /\ IF outmodel_exists(fs, params.outmodel_file)
       THEN pc' = "train_build_metrics" /\ error' = error
       ELSE pc' = "failed" /\
            error' = Raised("Exception",
                            "Model " \o PathStr(params.outmodel_file)
                                \o " doesn't exist")
    /\ UNCHANGED <<elsewhere, containers, options, host0, fs, images, params, command, call, exc,
                   train_perf, test_perf>>

\* Line 159.
ComputeTrainBuildMetrics ==
    _docker_build("train_build_metrics", params.metrics_path,
                  DOCKER_METRICS_TAG, TRUE, "perf_train_run")

(***************************************************************************)
(* compute_perf.                                                           *)
(***************************************************************************)
_get_metrics_command(fake_data_samples) ==
    LET mode == IF fake_data_samples THEN METRICS_FAKE_Y ELSE METRICS_NO_FAKE_Y
    IN  "--fake-data-mode " \o mode

\* Lines 190-193.
perf_volumes(pred_path, opener_file, fake_data_samples, data_path) ==
    LET volumes == DictSet(DictSet(<<>>, pred_path, VOLUME_PRED),
                           opener_file, VOLUME_OPENER)
    IN  IF ~fake_data_samples
        THEN DictSet(volumes, data_path, VOLUME_DATA)
        ELSE volumes

\* Lines 195-197.
compute_perf_run(at, pred_path, opener_file, data_path, next) ==
    containers_run(at, DOCKER_METRICS_TAG,
                   _get_metrics_command(params.fake_data_samples),
                   perf_volumes(pred_path, opener_file,
                                params.fake_data_samples, data_path),
                   next)

\* Mutant: a perf.json without the key "all" gives the score 0.
read_perf_DefaultScore(f, pred_path) ==
    LET perf_file == PathJoin(pred_path, <<"perf.json">>)
    IN  IF perf_file \notin DOMAIN f.files
        THEN [error |-> Raised("FileNotFoundError", PathStr(perf_file)),
              score |-> NoScore]
        ELSE IF ~f.files[perf_file].json
        THEN [error |-> Raised("JSONDecodeError", PathStr(perf_file)),
              score |-> NoScore]
        ELSE LET perf == f.files[perf_file].obj
             IN  IF \E kv \in perf : kv[1] = "all"
                 THEN [error |-> NoError,
                       score |-> {kv[2] : kv \in {x \in perf : x[1] = "all"}}]
                 ELSE [error |-> NoError, score |-> {0}]

\* Lines 199-202: [error, score].  open raises on a missing file, json.load
\* on a file that is not JSON, perf['all'] on a missing key.
read_perf(f, pred_path) ==
    LET perf_file == PathJoin(pred_path, <<"perf.json">>)
    IN  IF perf_file \notin DOMAIN f.files
        THEN [error |-> Raised("FileNotFoundError", PathStr(perf_file)),
              score |-> NoScore]
        ELSE IF ~f.files[perf_file].json
        THEN [error |-> Raised("JSONDecodeError", PathStr(perf_file)),
              score |-> NoScore]
        ELSE LET perf == f.files[perf_file].obj
             IN  IF \E kv \in perf : kv[1] = "all"
                 THEN [error |-> NoError,
                       score |-> {kv[2] : kv \in {x \in perf : x[1] = "all"}}]
                 ELSE [error |-> Raised("KeyError", "all"), score |-> NoScore]

(***************************************************************************)
(* compute: the two evaluations.                                           *)
(***************************************************************************)
\* Lines 255-259, compute_perf up to the return of the container.
ComputePerfTrainRun ==
    compute_perf_run("perf_train_run", params.train_pred_path,
                     params.train_opener_file, params.train_data_path,
                     "perf_train_ret")

ComputePerfTrainRunReturn == _docker_run("perf_train_ret", "perf_train_read")

\* Lines 255-260, the score is read.
ComputePerfTrainRead ==
    /\ pc = "perf_train_read"
    /\ LET r == read_perf(fs, params.train_pred_path)
       IN  /\ train_perf' = r.score
           /\ IF r.error = NoError
              THEN pc' = "test_build" /\ error' = error
              ELSE pc' = "failed" /\ error' = r.error
    /\ trace' = Append(trace, HostOp("read", params.train_pred_path))
    /\ UNCHANGED <<elsewhere, containers, options, host0, fs, images, params, command, call, exc,
                   test_perf>>

\* Mutant: the test evaluation is given the train opener.
ComputePerfTestRun_TrainOpener ==
    compute_perf_run("perf_test_run", params.test_pred_path,
                     params.train_opener_file, params.test_data_path,
                     "perf_test_ret")

\* Lines 273-277, compute_perf up to the return of the container.
ComputePerfTestRun ==
    compute_perf_run("perf_test_run", params.test_pred_path,
                     params.test_opener_file, params.test_data_path,
                     "perf_test_ret")

ComputePerfTestRunReturn == _docker_run("perf_test_ret", "perf_test_read")

\* Mutant: the test score is read from the train prediction directory.
ComputePerfTestRead_TrainDirectory ==
    /\ pc = "perf_test_read"
    /\ LET r == read_perf(fs, params.train_pred_path)
       IN  /\ test_perf' = r.score
           /\ IF r.error = NoError
              THEN pc' = "done" /\ error' = error
              ELSE pc' = "failed" /\ error' = r.error
    /\ trace' = Append(trace, HostOp("read", params.train_pred_path))
    /\ UNCHANGED <<elsewhere, containers, options, host0, fs, images, params, command,
                   call, exc, train_perf>>

\* Lines 273-278, the score is read and compute returns.
ComputePerfTestRead ==
    /\ pc = "perf_test_read"
    /\ LET r == read_perf(fs, params.test_pred_path)
       IN  /\ test_perf' = r.score
           /\ IF r.error = NoError
              THEN pc' = "done" /\ error' = error
              ELSE pc' = "failed" /\ error' = r.error
    /\ trace' = Append(trace, HostOp("read", params.test_pred_path))
    /\ UNCHANGED <<elsewhere, containers, options, host0, fs, images, params, command, call, exc,
                   train_perf>>

(***************************************************************************)
(* compute_test.                                                           *)
(***************************************************************************)
\* Line 166.
ComputeTestBuild ==
    _docker_build("test_build", params.algo_path, DOCKER_METRICS_TAG, FALSE,
                  "test_run")

\* Mutant: the test run mounts the local directory, as the train run does.
test_volumes_WithLocal(q) ==
    LET volumes ==
            DictSet(DictSet(DictSet(DictSet(<<>>,
                q.outmodel_path, VOLUME_OUTPUT_MODEL),
                q.test_pred_path, VOLUME_PRED),
                q.local_path, VOLUME_LOCAL),
                q.test_opener_file, VOLUME_OPENER)
    IN  IF ~q.fake_data_samples
        THEN DictSet(volumes, q.test_data_path, VOLUME_DATA)
        ELSE volumes

\* Lines 174-178.
test_volumes(q) ==
    LET volumes ==
            DictSet(DictSet(DictSet(<<>>,
                q.outmodel_path, VOLUME_OUTPUT_MODEL),
                q.test_pred_path, VOLUME_PRED),
                q.test_opener_file, VOLUME_OPENER)
    IN  IF ~q.fake_data_samples
        THEN DictSet(volumes, q.test_data_path, VOLUME_DATA)
        ELSE volumes

\* Lines 180-182.
test_command(fake_data_samples) ==
    LET c == "predict " \o MODEL_FILENAME
    IN  IF fake_data_samples THEN c \o " --fake-data" ELSE c

\* Lines 183-184, the call.
ComputeTestRun ==
    containers_run("test_run", DOCKER_ALGO_TAG,
                   test_command(params.fake_data_samples), test_volumes(params),
                   "test_run_ret")

\* Lines 183-184, the return.
ComputeTestRunReturn == _docker_run("test_run_ret", "test_build_metrics")

\* Mutant: the testing phase ends with a second build from the algorithm
\* directory.
ComputeTestBuildMetrics_FromAlgo ==
    _docker_build("test_build_metrics", params.algo_path,
                  DOCKER_METRICS_TAG, FALSE, "perf_test_run")

\* Line 186.
ComputeTestBuildMetrics ==
    _docker_build("test_build_metrics", params.metrics_path,
                  DOCKER_METRICS_TAG, FALSE, "perf_test_run")

Next ==
    \/ RunLocal
    \/ CleanSandbox
    \/ ComputeTrainBuild
    \/ ComputeTrainLink
    \/ ComputeTrainRun
    \/ ComputeTrainRunReturn
    \/ ComputeTrainCheck
    \/ ComputeTrainBuildMetrics
    \/ ComputePerfTrainRun
    \/ ComputePerfTrainRunReturn
    \/ ComputePerfTrainRead
    \/ ComputeTestBuild
    \/ ComputeTestRun
    \/ ComputeTestRunReturn
    \/ ComputeTestBuildMetrics
    \/ ComputePerfTestRun
    \/ ComputePerfTestRunReturn
    \/ ComputePerfTestRead

Spec == Init /\ [][Next]_vars

(***************************************************************************)
(* compute called as a library function, the way tests/test_runner.py     *)
(* calls it, followed up to the point where compute_train has its command *)
(* and is about to run the algo.  A caller of compute may leave rank at    *)
(* None and may spell an input model any way it likes; the input model    *)
(* /cwd/m1 is found with either of two contents.                           *)
(***************************************************************************)
ComputeRanks == {None, <<0>>, <<1>>}

ComputeInModelArgs == InModelArgs \cup {<<".", "m1">>, <<"/", "cwd", "m1">>}

ComputeInModelLists ==
    UNION {[1..n -> ComputeInModelArgs] : n \in 0..MaxInModels}

ComputeHosts ==
    { WithFile(h, <<"/", "cwd", "m1">>, c) :
        h \in {PriorAbsent, PriorEarlierRun},
        c \in {Blob("earlier"), Json("earlier", {<<"all", 42>>})} }

InitCompute ==
    /\ pc = "call"
    /\ options = NoOptions
    /\ fs \in ComputeHosts
    /\ host0 = fs
    /\ images = [t \in {DOCKER_ALGO_TAG, DOCKER_METRICS_TAG} |-> <<>>]
    /\ params = NoParams
    /\ command = ""
    /\ call = NoCall
    /\ exc = NoError
    /\ error = NoError
    /\ train_perf = NoScore
    /\ test_perf = NoScore
    /\ trace = <<>>
    /\ containers = 0
    /\ client = NoClient
    /\ sent = <<>>
    /\ inv = NoInvocations

\* compute, lines 205-232, entered directly.
Compute ==
    /\ pc = "call"
    /\ \E fake_data_samples \in BOOLEAN,
          rank \in ComputeRanks,
          inmodels \in ComputeInModelLists :
        LET train_data_path == IF fake_data_samples THEN None
                               ELSE TrainDataArg
            test_data_path == IF fake_data_samples THEN None
                              ELSE TestDataArg
        IN  /\ options' = [fake_data_samples |-> fake_data_samples,
                           train_data_samples |-> train_data_path,
                           test_data_samples |-> test_data_path,
                           rank |-> rank, inmodels |-> inmodels]
            /\ params' = compute_paths(
                   [algo_path |-> AlgoArg,
                    train_opener_file |-> TrainOpenerArg,
                    test_opener_file |-> TestOpenerArg,
                    metrics_path |-> MetricsArg,
                    train_data_path |-> train_data_path,
                    test_data_path |-> test_data_path,
                    fake_data_samples |-> fake_data_samples,
                    rank |-> rank,
                    inmodels |-> inmodels])
    /\ pc' = "clean_sandbox"
    /\ UNCHANGED <<elsewhere, containers, host0, fs, images, command, call, exc, error,
                   train_perf, test_perf, trace>>

NextCompute ==
    \/ Compute
    \/ CleanSandbox
    \/ ComputeTrainBuild
    \/ ComputeTrainLink

SpecCompute == InitCompute /\ [][NextCompute]_vars

(***************************************************************************)
(* sdk/rest_client.py: one call of Client.add against a server that may    *)
(* answer anything.  A response is [fault, status, pkhash, json]: fault is *)
(* the exception of the requests library when no response came, json says *)
(* whether the body parses, and pkhash is the key the body carries: one    *)
(* key, a list of keys ("<list>"), or none.  An asset is named by its key. *)
(***************************************************************************)
MaxRetryTimeout == 2

RetryTimeouts == 0..MaxRetryTimeout

Response(fault, status, pkhash, json) ==
    [fault |-> fault, status |-> status, pkhash |-> pkhash, json |-> json]

PostResponses ==
    {Response(f, 0, "", FALSE) : f \in {"ConnectionError", "Timeout"}}
    \cup {Response("", 200, "a-key", j) : j \in BOOLEAN}
    \cup {Response("", s, "", TRUE) : s \in {400, 401, 403, 404, 500, 418}}
    \cup {Response("", s, k, TRUE) : s \in {408, 409}, k \in {"a-key", "<list>"}}

GetResponses(key) ==
    {Response("ConnectionError", 0, "", FALSE)}
    \cup {Response("", 200, key, j) : j \in BOOLEAN}
    \cup {Response("", s, "", TRUE) : s \in {404, 500}}

\* Mutant: status 408 has no case of its own.
_request_No408(r) ==
    IF r.fault = "ConnectionError" THEN "ConnectionError"
    ELSE IF r.fault = "Timeout" THEN "Timeout"
    ELSE IF r.status < 400 THEN ""
    ELSE IF r.status = 400 THEN "InvalidRequest"
    ELSE IF r.status = 401 THEN "AuthenticationError"
    ELSE IF r.status = 403 THEN "AuthorizationError"
    ELSE IF r.status = 404 THEN "NotFound"
    ELSE IF r.status = 409 THEN "AlreadyExists"
    ELSE IF r.status = 500 THEN "InternalServerError"
    ELSE "HTTPError"

\* Client._request, lines 77-113: the name of the exception it raises for a
\* response, "" when it returns the response.
_request(r) ==
    IF r.fault = "ConnectionError" THEN "ConnectionError"
    ELSE IF r.fault = "Timeout" THEN "Timeout"
    ELSE IF r.status < 400 THEN ""
    ELSE IF r.status = 400 THEN "InvalidRequest"
    ELSE IF r.status = 401 THEN "AuthenticationError"
    ELSE IF r.status = 403 THEN "AuthorizationError"
    ELSE IF r.status = 404 THEN "NotFound"
    ELSE IF r.status = 408 THEN "RequestTimeout"
    ELSE IF r.status = 409 THEN "AlreadyExists"
    ELSE IF r.status = 500 THEN "InternalServerError"
    ELSE "HTTPError"

\* Client.request, lines 124-137: [raised, value].
request(r) ==
    IF _request(r) # "" THEN [raised |-> _request(r), value |-> ""]
    ELSE IF ~r.json THEN [raised |-> "InvalidResponse", value |-> ""]
    ELSE [raised |-> "", value |-> r.pkhash]

\* e.pkhash of the exception made from a response: the key its body carries.
pkhash(r) == r.pkhash

\* isinstance(key, list), lines 186 and 201.
is_many(key) == key = "<list>"

\* Mutant: a timed-out POST is always raised, the asset is never fetched.
add_except_NoRetry(e, key, retry_timeout, exist_ok) ==
    IF e = "AlreadyExists"
    THEN IF ~exist_ok THEN "raise"
         ELSE IF is_many(key) THEN "raise" ELSE "get"
    ELSE "raise"

\* Mutant: exist_ok is honoured for a list of keys too.
add_except_ExistOkMany(e, key, retry_timeout, exist_ok) ==
    IF e = "RequestTimeout"
    THEN IF retry_timeout = 0 \/ is_many(key) THEN "raise" ELSE "retry"
    ELSE IF e = "AlreadyExists"
    THEN IF ~exist_ok THEN "raise" ELSE "get"
    ELSE "raise"

\* Client.add, lines 182-207: what add does with the exception of its POST:
\* "raise" it, "retry" the GET of the key, or "get" the key once.
add_except(e, key, retry_timeout, exist_ok) ==
    IF e = "RequestTimeout"
    THEN IF retry_timeout = 0 \/ is_many(key) THEN "raise" ELSE "retry"
    ELSE IF e = "AlreadyExists"
    THEN IF ~exist_ok THEN "raise"
         ELSE IF is_many(key) THEN "raise" ELSE "get"
    ELSE "raise"

InitAdd ==
    /\ pc = "sdk"
    /\ options = NoOptions
    /\ fs = PriorAbsent
    /\ host0 = fs
    /\ images = [t \in {DOCKER_ALGO_TAG, DOCKER_METRICS_TAG} |-> <<>>]
    /\ params = NoParams
    /\ command = ""
    /\ call = NoCall
    /\ exc = NoError
    /\ error = NoError
    /\ train_perf = NoScore
    /\ test_perf = NoScore
    /\ trace = <<>>
    /\ containers = 0
    /\ client = NoClient
    /\ sent = <<>>
    /\ inv = NoInvocations

\* The variables Client.add leaves alone.
pipeline ==
    <<pc, options, host0, fs, images, params, command, call, exc, error,
      train_perf, test_perf, trace, containers, inv>>

\* Client.add is called, lines 166-167.
Add ==
    /\ client.pc = "idle"
    /\ \E retry_timeout \in RetryTimeouts, exist_ok \in BOOLEAN :
          client' = [client EXCEPT !.pc = "post",
                                   !.retry_timeout = retry_timeout,
                                   !.exist_ok = exist_ok]
    /\ UNCHANGED <<pipeline, sent>>

\* requests.post, called at line 78 for the request of lines 176-180.
RequestsPost ==
    /\ client.pc = "post"
    /\ sent' = Append(sent, [method |-> "post", key |-> ""])
    /\ \E r \in PostResponses :
          client' = [client EXCEPT !.pc = "posted", !.response = r]
    /\ UNCHANGED pipeline

\* Client.add, lines 175-207, once the POST has been answered.
AddPosted ==
    /\ client.pc = "posted"
    /\ LET r == request(client.response)
           key == pkhash(client.response)
           todo == add_except(r.raised, key, client.retry_timeout,
                              client.exist_ok)
       IN  client' =
             IF r.raised = ""
             THEN [client EXCEPT !.pc = "returned", !.result = r.value]
             ELSE IF todo = "raise"
             THEN [client EXCEPT !.pc = "raised", !.raised = r.raised]
             ELSE [client EXCEPT !.pc = todo, !.key = key]
    /\ UNCHANGED <<pipeline, sent>>

\* requests.get, called at line 78 for self.get(name, key), lines 139-145.
RequestsGet ==
    /\ client.pc \in {"retry", "get"}
    /\ sent' = Append(sent, [method |-> "get", key |-> client.key])
    /\ \E r \in GetResponses(client.key) :
          client' = [client EXCEPT
                        !.pc = IF client.pc = "retry" THEN "retried"
                               ELSE "got",
                        !.response = r]
    /\ UNCHANGED pipeline

\* retry(self.get)(name, key), lines 190-194: the GET is made again after a
\* wait while it raises NotFound and the waits have not used up the timeout;
\* any other exception, and NotFound at the timeout, is raised.
AddRetried ==
    /\ client.pc = "retried"
    /\ LET r == request(client.response)
       IN  client' =
             IF r.raised = ""
             THEN [client EXCEPT !.pc = "returned", !.result = r.value]
             ELSE IF r.raised = "NotFound"
                     /\ client.waited < client.retry_timeout
             THEN [client EXCEPT !.pc = "retry", !.waited = @ + 1]
             ELSE [client EXCEPT !.pc = "raised", !.raised = r.raised]
    /\ UNCHANGED <<pipeline, sent>>

\* return self.get(name, key), line 207.
AddGot ==
    /\ client.pc = "got"
    /\ LET r == request(client.response)
       IN  client' =
             IF r.raised = ""
             THEN [client EXCEPT !.pc = "returned", !.result = r.value]
             ELSE [client EXCEPT !.pc = "raised", !.raised = r.raised]
    /\ UNCHANGED <<pipeline, sent>>

NextAdd ==
    \/ Add
    \/ RequestsPost
    \/ AddPosted
    \/ RequestsGet
    \/ AddRetried
    \/ AddGot

SpecAdd == InitAdd /\ [][NextAdd]_vars

(***************************************************************************)
(* Two invocations of compute with the same arguments, hence on the same   *)
(* sandbox root, whose steps interleave.  They share the host filesystem   *)
(* and the engine's images; each has its position and locals in inv[p].    *)
(* The engine and the images behave: every build succeeds, the algo       *)
(* writes its model and its predictions, the metrics write                *)
(* {"all": 42}.  A file records which invocation's container wrote it,     *)
(* and inv[p].seen records whose file an invocation found each time it    *)
(* used one: a link named in its train command, the model it tests and    *)
(* predicts with, the perf.json it reads.                                  *)
(***************************************************************************)
Invocations == {1, 2}

Other(p) == 3 - p

Writer(p) == "run" \o ToString(p)

NotStarted ==
    [pc |-> "idle", error |-> "", model_keys |-> <<>>, command |-> "",
     train_perf |-> NoScore, test_perf |-> NoScore, seen |-> {},
     overlapped |-> FALSE, builds |-> 0, runs |-> 0]

\* The invocation is between its entry into compute and its end.
InFlight(p) == inv[p].pc \notin {"idle", "done", "failed"}

\* Who wrote the file at path, "absent" when there is none.
FoundAt(f, path) ==
    IF path \in DOMAIN f.files THEN f.files[path].by ELSE "absent"

\* f after a container has written `content` to path `dir`/`name` of a
\* directory mounted read-write; nothing is written when the directory is
\* not there.
Written(f, dir, name, content) ==
    IF dir \in f.dirs THEN WithFile(f, dir \o <<name>>, content) ELSE f

InitOverlap ==
    /\ pc = "overlap"
    /\ options = NoOptions
    /\ fs = PriorAbsent
    /\ host0 = fs
    /\ images = [t \in {DOCKER_ALGO_TAG, DOCKER_METRICS_TAG} |-> <<>>]
    /\ \E fake_data_samples \in BOOLEAN, inmodels \in {<<>>, << <<"m1">> >>} :
          params = compute_paths(
              [algo_path |-> AlgoArg,
               train_opener_file |-> TrainOpenerArg,
               test_opener_file |-> TestOpenerArg,
               metrics_path |-> MetricsArg,
               train_data_path |-> IF fake_data_samples THEN None
                                   ELSE TrainDataArg,
               test_data_path |-> IF fake_data_samples THEN None
                                  ELSE TestDataArg,
               fake_data_samples |-> fake_data_samples,
               rank |-> <<0>>,
               inmodels |-> inmodels])
    /\ command = ""
    /\ call = NoCall
    /\ exc = NoError
    /\ error = NoError
    /\ train_perf = NoScore
    /\ test_perf = NoScore
    /\ trace = <<>>
    /\ containers = 0
    /\ client = NoClient
    /\ sent = <<>>
    /\ inv = [p \in Invocations |-> NotStarted]

\* The variables the two invocations leave alone.
single ==
    <<pc, options, host0, params, command, call, exc, error, train_perf,
      test_perf, trace, containers, client, sent>>

\* compute is entered, lines 205-232.
InvCompute(p) ==
    /\ inv[p].pc = "idle"
    /\ inv' = [q \in Invocations |->
                  IF q = p
                  THEN [inv[q] EXCEPT !.pc = "clean_sandbox",
                                      !.overlapped = InFlight(Other(p))]
                  ELSE [inv[q] EXCEPT !.overlapped = @ \/ InFlight(q)]]
    /\ UNCHANGED <<single, fs, images>>

\* Mutant: the reset waits until no other invocation is in flight.
InvCleanSandbox_WaitsForOther(p) ==
    /\ inv[p].pc = "clean_sandbox"
    /\ ~InFlight(Other(p))
    /\ LET r == clean_sandbox(fs, params)
       IN  /\ fs' = r.fs
           /\ inv' = [inv EXCEPT ![p].pc = IF r.ok THEN "train_build"
                                           ELSE "failed",
                                 ![p].error = IF r.ok THEN ""
                                              ELSE "NotADirectoryError"]
    /\ UNCHANGED <<single, images>>

\* compute, line 236.
InvCleanSandbox(p) ==
    /\ inv[p].pc = "clean_sandbox"
    /\ LET r == clean_sandbox(fs, params)
       IN  /\ fs' = r.fs
           /\ inv' = [inv EXCEPT ![p].pc = IF r.ok THEN "train_build"
                                           ELSE "failed",
                                 ![p].error = IF r.ok THEN ""
                                              ELSE "NotADirectoryError"]
    /\ UNCHANGED <<single, images>>

\* _docker_build, lines 71-78, the build succeeding.
InvBuild(p, at, dockerfile_path, name, next) ==
    /\ inv[p].pc = at
    /\ images' = [images EXCEPT ![name] = dockerfile_path]
    /\ inv' = [inv EXCEPT ![p].pc = next, ![p].builds = @ + 1]
    /\ UNCHANGED <<single, fs>>

\* compute_train, line 116.
InvTrainBuild(p) ==
    InvBuild(p, "train_build", params.algo_path, DOCKER_ALGO_TAG, "train_link")

\* compute_train, lines 131-151.
InvTrainLink(p) ==
    /\ inv[p].pc = "train_link"
    /\ LET r == IF params.inmodels # <<>>
                THEN link_inmodels(fs, params.outmodel_path,
                                   params.inmodels, <<>>)
                ELSE [error |-> NoError, fs |-> fs, model_keys |-> <<>>]
       IN  /\ fs' = r.fs
           /\ inv' = IF r.error = NoError
                     THEN [inv EXCEPT
                              ![p].pc = "train_run",
                              ![p].model_keys = r.model_keys,
                              ![p].command =
                                  train_command(params.fake_data_samples,
                                                params.rank, r.model_keys)]
                     ELSE [inv EXCEPT ![p].pc = "failed",
                                      ![p].error = r.error.type]
    /\ UNCHANGED <<single, images>>

\* compute_train, lines 153-154: the algo trains with the input models its
\* command names and writes its model and its predictions.
InvTrainRun(p) ==
    /\ inv[p].pc = "train_run"
    /\ inv' = [inv EXCEPT
                  ![p].pc = "train_check",
                  ![p].runs = @ + 1,
                  ![p].seen = @ \cup
                      {<<"link", FoundAt(fs, params.outmodel_path
                                               \o <<inv[p].model_keys[i]>>)>> :
                          i \in DOMAIN inv[p].model_keys}]
    /\ fs' = Written(Written(fs, params.outmodel_path, MODEL_FILENAME,
                             Blob(Writer(p))),
                     params.train_pred_path, "pred", Blob(Writer(p)))
    /\ UNCHANGED <<single, images>>

\* compute_train, lines 156-157.
InvTrainCheck(p) ==
    /\ inv[p].pc = "train_check"
    /\ inv' = [inv EXCEPT
                  ![p].pc = IF outmodel_exists(fs, params.outmodel_file)
                            THEN "train_build_metrics" ELSE "failed",
                  ![p].error = IF outmodel_exists(fs, params.outmodel_file)
                               THEN "" ELSE "Exception",
                  ![p].seen = @ \cup
                      {<<"model", FoundAt(fs, params.outmodel_file)>>}]
    /\ UNCHANGED <<single, fs, images>>

\* compute_train, line 159.
InvTrainBuildMetrics(p) ==
    InvBuild(p, "train_build_metrics", params.metrics_path,
             DOCKER_METRICS_TAG, "perf_train_run")

\* compute_perf, lines 195-197: the metrics write perf.json.
InvPerfRun(p, at, pred_path, next) ==
    /\ inv[p].pc = at
    /\ inv' = [inv EXCEPT ![p].pc = next, ![p].runs = @ + 1]
    /\ fs' = Written(fs, pred_path, "perf.json",
                     Json(Writer(p), {<<"all", 42>>}))
    /\ UNCHANGED <<single, images>>

InvPerfTrainRun(p) ==
    InvPerfRun(p, "perf_train_run", params.train_pred_path, "perf_train_read")

\* Mutant: when perf.json cannot be read the train evaluation is run again.
InvPerfTrainRead_RunsAgain(p) ==
    /\ inv[p].pc = "perf_train_read"
    /\ LET r == read_perf(fs, params.train_pred_path)
       IN  inv' = [inv EXCEPT
                      ![p].pc = IF r.error = NoError THEN "test_build"
                                ELSE "perf_train_run",
                      ![p].train_perf = r.score,
                      ![p].seen = @ \cup
                          {<<"perf", FoundAt(fs, params.train_pred_path
                                                   \o <<"perf.json">>)>>}]
    /\ UNCHANGED <<single, fs, images>>

\* compute_perf, lines 199-202, for the train score.
InvPerfTrainRead(p) ==
    /\ inv[p].pc = "perf_train_read"
    /\ LET r == read_perf(fs, params.train_pred_path)
       IN  inv' = [inv EXCEPT
                      ![p].pc = IF r.error = NoError THEN "test_build"
                                ELSE "failed",
                      ![p].error = r.error.type,
                      ![p].train_perf = r.score,
                      ![p].seen = @ \cup
                          {<<"perf", FoundAt(fs, params.train_pred_path
                                                   \o <<"perf.json">>)>>}]
    /\ UNCHANGED <<single, fs, images>>

\* compute_test, line 166.
InvTestBuild(p) ==
    InvBuild(p, "test_build", params.algo_path, DOCKER_METRICS_TAG, "test_run")

\* compute_test, lines 183-184: the algo predicts with the model its
\* command names and writes its predictions.
InvTestRun(p) ==
    /\ inv[p].pc = "test_run"
    /\ inv' = [inv EXCEPT
                  ![p].pc = "test_build_metrics",
                  ![p].runs = @ + 1,
                  ![p].seen = @ \cup
                      {<<"model", FoundAt(fs, params.outmodel_file)>>}]
    /\ fs' = Written(fs, params.test_pred_path, "pred", Blob(Writer(p)))
    /\ UNCHANGED <<single, images>>

\* compute_test, line 186.
InvTestBuildMetrics(p) ==
    InvBuild(p, "test_build_metrics", params.metrics_path,
             DOCKER_METRICS_TAG, "perf_test_run")

InvPerfTestRun(p) ==
    InvPerfRun(p, "perf_test_run", params.test_pred_path, "perf_test_read")

\* compute_perf, lines 199-202, for the test score, and compute returns.
InvPerfTestRead(p) ==
    /\ inv[p].pc = "perf_test_read"
    /\ LET r == read_perf(fs, params.test_pred_path)
       IN  inv' = [inv EXCEPT
                      ![p].pc = IF r.error = NoError THEN "done"
                                ELSE "failed",
                      ![p].error = r.error.type,
                      ![p].test_perf = r.score,
                      ![p].seen = @ \cup
                          {<<"perf", FoundAt(fs, params.test_pred_path
                                                   \o <<"perf.json">>)>>}]
    /\ UNCHANGED <<single, fs, images>>

\* The next step of invocation p.
InvNext(p) ==
        \/ InvCompute(p)
        \/ InvCleanSandbox(p)
        \/ InvTrainBuild(p)
        \/ InvTrainLink(p)
        \/ InvTrainRun(p)
        \/ InvTrainCheck(p)
        \/ InvTrainBuildMetrics(p)
        \/ InvPerfTrainRun(p)
        \/ InvPerfTrainRead(p)
        \/ InvTestBuild(p)
        \/ InvTestRun(p)
        \/ InvTestBuildMetrics(p)
        \/ InvPerfTestRun(p)
        \/ InvPerfTestRead(p)

NextOverlap == \E p \in Invocations : InvNext(p)

SpecOverlap == InitOverlap /\ [][NextOverlap]_vars

(***************************************************************************)
(* The same invocations with an engine that may answer a build or a run    *)
(* with an error, under the assumption that each invocation keeps running  *)
(* and that the engine answers every call: whenever an invocation can take *)
(* a step, or the engine can answer its call, this eventually happens.     *)
(***************************************************************************)
InvBuildStages ==
    {"train_build", "train_build_metrics", "test_build", "test_build_metrics"}

InvRunStages == {"train_run", "perf_train_run", "test_run", "perf_test_run"}

\* _docker_build and _docker_run, lines 71-107: the engine answers the call
\* of invocation p with an error, which leaves compute.
InvEngineError(p) ==
    /\ inv[p].pc \in InvBuildStages \cup InvRunStages
    /\ inv' = [inv EXCEPT
                  ![p].pc = "failed",
                  ![p].error = IF inv[p].pc \in InvBuildStages THEN "BuildError"
                               ELSE "RunError",
                  ![p].builds = IF inv[p].pc \in InvBuildStages THEN @ + 1 ELSE @,
                  ![p].runs = IF inv[p].pc \in InvBuildStages THEN @ ELSE @ + 1]
    /\ UNCHANGED <<single, fs, images>>

\* A step of invocation p or an answer of the engine to it.
InvLiveNext(p) == InvNext(p) \/ InvEngineError(p)

NextLive == \E p \in Invocations : InvLiveNext(p)

SpecLive ==
    /\ InitOverlap
    /\ [][NextLive]_vars
    /\ \A p \in Invocations : WF_vars(InvLiveNext(p))

(***************************************************************************)
(* Properties.                                                             *)
(***************************************************************************)
Last(seq) == seq[Len(seq)]

\* The invocation has entered compute.
Started == pc \notin {"cli", "usage_error"}

\* The directories of the sandbox.
SandboxDirs(q) ==
    {q.compute_path, q.local_path, q.outmodel_path, q.train_pred_path,
     q.test_pred_path}

\* Operations without the arguments of the container runs.
Steps(ops) ==
    [i \in DOMAIN ops |->
        [op |-> ops[i].op, tag |-> ops[i].tag, path |-> ops[i].path,
         verb |-> IF ops[i].op # "run" THEN ""
                  ELSE IF ops[i].tag = DOCKER_METRICS_TAG THEN "evaluate"
                  ELSE IF SubSeq(ops[i].cmd, 1, 5) = "train" THEN "train"
                  ELSE "predict",
         on |-> IF ops[i].op # "run" THEN {}
                ELSE ops[i].mounts \cap SandboxDirs(params)]]

Step(op, tag, path, verb, on) ==
    [op |-> op, tag |-> tag, path |-> path, verb |-> verb, on |-> on]

\* The order of operations of section 4.6 for parameters q.
PipelineOrder(q) ==
    <<Step("reset", "", q.compute_path, "", {}),
      Step("build", DOCKER_ALGO_TAG, q.algo_path, "", {})>>
    \o [i \in DOMAIN q.inmodels |->
           Step("link", "",
                q.outmodel_path
                    \o <<Sha256Hex(PathStr(AbsPath(q.inmodels[i])))>>,
                "", {})]
    \o <<Step("run", DOCKER_ALGO_TAG, <<>>, "train",
              {q.outmodel_path, q.train_pred_path, q.local_path}),
         Step("check", "", q.outmodel_path \o <<"model">>, "", {}),
         Step("build", DOCKER_METRICS_TAG, q.metrics_path, "", {}),
         Step("run", DOCKER_METRICS_TAG, <<>>, "evaluate", {q.train_pred_path}),
         Step("read", "", q.train_pred_path, "", {}),
         Step("build", DOCKER_METRICS_TAG, q.algo_path, "", {}),
         Step("run", DOCKER_ALGO_TAG, <<>>, "predict",
              {q.outmodel_path, q.test_pred_path}),
         Step("build", DOCKER_METRICS_TAG, q.metrics_path, "", {}),
         Step("run", DOCKER_METRICS_TAG, <<>>, "evaluate", {q.test_pred_path}),
         Step("read", "", q.test_pred_path, "", {})>>

\* C1: the operations of an invocation are, at every moment, an initial part
\* of the fixed order reset, build algo, links, train, check, build metrics,
\* evaluate train, read, build metrics tag from the algorithm directory,
\* predict, build metrics, evaluate test, read; a run that succeeds has
\* performed all of them, each once.
C1_FixedOrder ==
    /\ Started =>
          /\ Len(trace) <= Len(PipelineOrder(params))
          /\ Steps(trace) = SubSeq(PipelineOrder(params), 1, Len(trace))
    /\ ~Started => trace = <<>>
    /\ pc = "done" => Steps(trace) = PipelineOrder(params)

C1_Witness ==
    /\ pc = "done"
    /\ Len(params.inmodels) = 2
    /\ Len(trace) = 14

\* C2: a failure ends the invocation at once.  After an exception of a
\* container run the next step is the abort, with the filesystem, the images
\* and the list of operations as they were; every exception that escapes
\* leaves the invocation in a failed state; a failed invocation takes no
\* further step; success is reached without any exception.
C2_AbortImmediately ==
    [][ /\ pc \in {"failed", "usage_error"} => UNCHANGED vars
        /\ exc # NoError =>
              /\ pc' = "failed"
              /\ error' # NoError
              /\ fs' = fs /\ images' = images /\ trace' = trace
        /\ error' # NoError => pc' \in {"failed", "usage_error"}
        /\ pc' \in {"failed", "usage_error"} => error' # NoError
        /\ pc' = "done" => error' = NoError /\ exc' = NoError ]_vars

C2_Witness ==
    /\ pc = "failed"
    /\ Last(trace).op = "read"
    /\ Last(trace).path = params.train_pred_path
    /\ error.type = "KeyError"

\* The five output files run-local documents.
OutputFiles(q) ==
    { q.outmodel_path \o <<"model">>,
      q.train_pred_path \o <<"perf.json">>, q.train_pred_path \o <<"pred">>,
      q.test_pred_path \o <<"perf.json">>, q.test_pred_path \o <<"pred">> }

\* C3: after a successful run the five output files model/model,
\* pred_train/perf.json, pred_train/pred, pred_test/perf.json and
\* pred_test/pred exist.
C3_OutputFilesExist ==
    pc = "done" => \A p \in OutputFiles(params) : p \in DOMAIN fs.files

\* C4: --fake-data-samples together with a data directory is a usage error
\* raised before anything is done: the host filesystem is as it was, no
\* operation has been performed, no image built and no container run.
C4_FakeWithDataRejected ==
    ( /\ pc # "cli"
      /\ options.fake_data_samples
      /\ options.train_data_samples # None \/ options.test_data_samples # None )
    => /\ pc = "usage_error"
       /\ error.type = "BadOptionUsage"
       /\ fs = host0
       /\ trace = <<>>
       /\ call = NoCall
       /\ \A t \in DOMAIN images : images[t] = <<>>

C4_Witness ==
    /\ pc = "usage_error"
    /\ options.fake_data_samples
    /\ options.train_data_samples = None
    /\ options.test_data_samples # None

\* Both data directories without synthetic mode, or synthetic mode alone.
ValidOptions(o) ==
    \/ /\ ~o.fake_data_samples
       /\ o.train_data_samples # None /\ o.test_data_samples # None
    \/ /\ o.fake_data_samples
       /\ o.train_data_samples = None /\ o.test_data_samples = None

DirsUnder(f, path) == {d \in f.dirs : IsPrefix(path, d)}
FilesUnder(f, path) == {p \in DOMAIN f.files : IsPrefix(path, p)}

\* C6: right after the reset the compute root holds the five directories and
\* nothing else, whatever it held before.
C6_ResetLeavesFiveEmptyDirs ==
    pc = "train_build" =>
        /\ Cardinality(SandboxDirs(params)) = 5
        /\ DirsUnder(fs, params.compute_path) = SandboxDirs(params)
        /\ FilesUnder(fs, params.compute_path) = {}

C6_Witness ==
    /\ pc = "train_build"
    /\ FilesUnder(host0, SandboxRoot) # {}
    /\ DirsUnder(host0, SandboxRoot) \ SandboxDirs(params) # {}

\* C7: a second reset right after the first changes nothing and raises
\* nothing, and the reset of a missing compute root does not fail.
C7_ResetIdempotent ==
    /\ pc = "train_build" =>
          clean_sandbox(fs, params) = [ok |-> TRUE, fs |-> fs]
    /\ pc = "clean_sandbox" =>
          LET once == clean_sandbox(fs, params)
          IN  /\ once.ok => clean_sandbox(once.fs, params) = once
              /\ ~Exists(fs, params.compute_path) => once.ok
    /\ pc = "failed" /\ Last(trace).op = "reset" =>
          Exists(host0, params.compute_path)

C7_Witness ==
    /\ pc = "train_build"
    /\ ~Exists(host0, SandboxRoot)

\* The stages at which the engine runs a container.
RunStages == {"train_run", "perf_train_run", "test_run", "perf_test_run"}

\* C8: apart from the reset, no step of the pipeline removes or changes a
\* directory or file; a container changes files only in the directories
\* mounted read-write into it; an abort leaves the filesystem as it is.
C8_OnlyResetDeletes ==
    [][ LET Kept(S) ==
                \A p \in S :
                    p \in DOMAIN fs'.files /\ fs'.files[p] = fs.files[p]
            rw == {h \in DOMAIN call'.volumes : call'.volumes[h].mode = "rw"}
        IN  /\ pc # "clean_sandbox" => fs.dirs \subseteq fs'.dirs
            /\ pc \notin RunStages \cup {"clean_sandbox"} =>
                  Kept(DOMAIN fs.files)
            /\ pc \in RunStages =>
                  Kept({p \in DOMAIN fs.files : DirName(p) \notin rw})
            /\ pc' = "failed" /\ pc # "clean_sandbox" =>
                  Kept(DOMAIN fs.files) ]_vars

C8_Witness ==
    /\ pc = "failed"
    /\ params.outmodel_file \in DOMAIN fs.files
    /\ params.train_pred_path \o <<"perf.json">> \in DOMAIN fs.files
    /\ \E p \in DOMAIN fs.files :
          DirName(p) = params.outmodel_path /\ fs.files[p].by = "earlier"

\* The files of the output-model directory.
OutmodelFiles(f, q) == {p \in DOMAIN f.files : DirName(p) = q.outmodel_path}

\* The training command without model keys.
TrainCommandBase(q) ==
    "train" \o (IF q.fake_data_samples THEN " --fake-data" ELSE "")
            \o (IF q.rank # <<>> THEN " --rank " \o ToString(q.rank[1]) ELSE "")

\* Two input models with distinct absolute paths.
TwoDistinctInModels(q) ==
    /\ Len(q.inmodels) = 2
    /\ AbsPath(q.inmodels[1]) # AbsPath(q.inmodels[2])

\* The link stage has raised: the algo image is built and no command is set.
LinkStageFailed ==
    pc = "failed" /\ command = "" /\ images[DOCKER_ALGO_TAG] # <<>>

\* After the link stage: two distinct keys, exactly the two links named by
\* them, each the file it links, and a command ending with the two keys.
TwoLinksAndKeys(q) ==
    LET k1 == Sha256Hex(PathStr(AbsPath(q.inmodels[1])))
        k2 == Sha256Hex(PathStr(AbsPath(q.inmodels[2])))
    IN  /\ k1 # k2
        /\ OutmodelFiles(fs, q) = {q.outmodel_path \o <<k1>>,
                                   q.outmodel_path \o <<k2>>}
        /\ fs.files[q.outmodel_path \o <<k1>>]
              = host0.files[AbsPath(q.inmodels[1])]
        /\ fs.files[q.outmodel_path \o <<k2>>]
              = host0.files[AbsPath(q.inmodels[2])]
        /\ command = TrainCommandBase(q) \o " " \o k1 \o " " \o k2

\* C9 as stated: for two input models with distinct absolute paths the link
\* stage leaves two links and a command with the two keys.
C9_TwoLinksAlways ==
    TwoDistinctInModels(params) /\ (pc = "train_run" \/ LinkStageFailed)
        => TwoLinksAndKeys(params)

\* C9, amended: for two input models with distinct absolute paths, a link
\* stage that completes leaves two links and a command with the two keys,
\* and it fails to complete only when a model lies under the sandbox root.
C9_TwoLinksWhenLinked ==
    TwoDistinctInModels(params) =>
        /\ pc = "train_run" => TwoLinksAndKeys(params)
        /\ LinkStageFailed =>
              \E i \in 1..2 :
                  IsPrefix(params.compute_path, AbsPath(params.inmodels[i]))

C9_Witness ==
    /\ pc = "train_run"
    /\ TwoDistinctInModels(params)
    /\ ~IsAbs(params.inmodels[1])

\* C10: without input models the pipeline makes no link (the output-model
\* directory holds only what containers of this run wrote) and the training
\* command is the bare command.
C10_NoInModelsNoKeys ==
    Started /\ params.inmodels = <<>> =>
        /\ \A i \in DOMAIN trace : trace[i].op # "link"
        /\ pc # "clean_sandbox" =>
              \A p \in OutmodelFiles(fs, params) : fs.files[p].by = "run"
        /\ pc = "train_run" => OutmodelFiles(fs, params) = {}
        /\ pc = "train_run" => command = TrainCommandBase(params)
        /\ command \in {"", TrainCommandBase(params)}

C10_Witness ==
    /\ pc = "train_run"
    /\ params.inmodels = <<>>
    /\ params.fake_data_samples
    /\ command = "train --fake-data --rank 0"

\* The links made by the invocation, in the order it made them.
Links == SelectSeq(trace, LAMBDA o : o.op = "link")

\* C11: the key under which an input model is linked is a function of the
\* absolute path of the model alone: every spelling of that path has this
\* key, every other path has another key even when the two files hold the
\* same, and the key is the digest of the path whatever the file holds.
C11_KeyFromAbsPath ==
    \A i \in DOMAIN Links :
        LET key == Last(Links[i].path)
            src == AbsPath(params.inmodels[i])
        IN  /\ key = Sha256Hex(PathStr(src))
            /\ \A p \in ComputeInModelArgs :
                  (model_hash(p) = key) <=> (AbsPath(p) = src)
            /\ fs.files[Links[i].path] = host0.files[src]

C11_Witness ==
    /\ pc = "train_run"
    /\ params.inmodels = << <<".", "m1">>, <<"/", "data", "m2">> >>
    /\ Len(Links) = 2
    /\ host0.files[<<"/", "cwd", "m1">>] = host0.files[<<"/", "data", "m2">>]
    /\ Last(Links[1].path) = model_hash(<<"/", "cwd", "m1">>)
    /\ Last(Links[1].path) # Last(Links[2].path)

RECURSIVE EachAfterSpace(_)
\* The words, each after one space.
EachAfterSpace(words) ==
    IF words = <<>> THEN ""
    ELSE " " \o Head(words) \o EachAfterSpace(Tail(words))

\* C12: the command of the train run is "train", then " --fake-data" exactly
\* when the data is synthetic, then " --rank N" exactly when a rank was
\* given (rank 0 is a rank), then the keys of the linked input models in the
\* order they were supplied, each after one space, and nothing else.
C12_TrainCommand ==
    pc = "train_run" =>
        /\ Len(Links) = Len(params.inmodels)
        /\ command =
              "train"
                \o (IF params.fake_data_samples THEN " --fake-data" ELSE "")
                \o (IF params.rank = None THEN ""
                    ELSE " --rank " \o ToString(params.rank[1]))
                \o EachAfterSpace([i \in DOMAIN Links |->
                                      Last(Links[i].path)])

C12_Witness ==
    /\ pc = "train_run"
    /\ params.fake_data_samples
    /\ params.rank = <<0>>
    /\ params.inmodels = << <<"/", "data", "m2">>, <<"m1">> >>
    /\ command = "train --fake-data --rank 0 sha256:/data/m2 sha256:/cwd/m1"

\* The number of container runs the invocation has asked for: `call` holds
\* the arguments of the latest of them.
RunsCalled == Len(SelectSeq(trace, LAMBDA o : o.op = "run"))

\* The host paths a call mounts, each with its mode.
Mounts(volumes) == {<<k, volumes[k].mode>> : k \in DOMAIN volumes}

\* C13: the train run mounts the output-model directory, the train
\* prediction directory and the local directory read-write, the train opener
\* file read-only, the train data directory read-only exactly when the data
\* is not synthetic, and nothing else.
C13_TrainVolumes ==
    RunsCalled = 1 =>
        /\ call.name = DOCKER_ALGO_TAG
        /\ call.command = command
        /\ Mounts(call.volumes) =
              { <<params.outmodel_path, "rw">>,
                <<params.train_pred_path, "rw">>,
                <<params.local_path, "rw">>,
                <<params.train_opener_file, "ro">> }
              \cup (IF params.fake_data_samples THEN {}
                    ELSE {<<params.train_data_path, "ro">>})

C13_Witness ==
    /\ pc = "train_run_ret"
    /\ params.fake_data_samples
    /\ Cardinality(DOMAIN call.volumes) = 4
    /\ params.local_path \in DOMAIN call.volumes

\* The pipeline has stopped at compute_train's test of the output model.
StoppedAtModelCheck == pc = "failed" /\ Last(trace).op = "check"

\* C14: when the train run has returned without error and the output-model
\* file does not exist, the pipeline fails there with the missing-model
\* error: the metrics image is not built and no evaluation or test step is
\* attempted.
C14_MissingModelStops ==
    /\ [][ /\ pc = "train_check" /\ ~Exists(fs, params.outmodel_file) =>
                /\ exc = NoError
                /\ pc' = "failed"
                /\ error' = Raised("Exception",
                                   "Model " \o PathStr(params.outmodel_file)
                                       \o " doesn't exist")
                /\ images' = images
                /\ RunsCalled' = RunsCalled
           /\ pc = "failed" => trace' = trace ]_vars
    /\ [](StoppedAtModelCheck =>
              /\ images[DOCKER_METRICS_TAG] = <<>>
              /\ RunsCalled = 1
              /\ \A i \in DOMAIN trace : trace[i].op # "read"
              /\ train_perf = NoScore /\ test_perf = NoScore)

C14_Witness ==
    /\ StoppedAtModelCheck
    /\ exc = NoError
    /\ params.train_pred_path \o <<"pred">> \in DOMAIN fs.files
    /\ ~Exists(fs, params.outmodel_file)

\* C15: the test run is made under the algo tag with the command
\* "predict model", followed by " --fake-data" exactly when the data is
\* synthetic; it mounts the output-model directory and the test prediction
\* directory read-write, the test opener file read-only, the test data
\* directory read-only exactly when the data is not synthetic, and nothing
\* else: the local directory is not mounted.
C15_TestRun ==
    RunsCalled = 3 =>
        /\ call.name = DOCKER_ALGO_TAG
        /\ call.command =
              "predict model"
                \o (IF params.fake_data_samples THEN " --fake-data" ELSE "")
        /\ Mounts(call.volumes) =
              { <<params.outmodel_path, "rw">>,
                <<params.test_pred_path, "rw">>,
                <<params.test_opener_file, "ro">> }
              \cup (IF params.fake_data_samples THEN {}
                    ELSE {<<params.test_data_path, "ro">>})
        /\ params.local_path \notin DOMAIN call.volumes

C15_Witness ==
    /\ pc = "test_run_ret"
    /\ ~params.fake_data_samples
    /\ call.command = "predict model"
    /\ params.test_data_path \in DOMAIN call.volumes

\* The latest call is an evaluation run of the given prediction directory,
\* opener file and data directory.
EvaluationCall(pred_path, opener_file, data_path) ==
    /\ call.name = DOCKER_METRICS_TAG
    /\ call.command =
          "--fake-data-mode "
            \o (IF params.fake_data_samples THEN "FAKE_Y" ELSE "DISABLED")
    /\ Mounts(call.volumes) =
          {<<pred_path, "rw">>, <<opener_file, "ro">>}
          \cup (IF params.fake_data_samples THEN {}
                ELSE {<<data_path, "ro">>})

\* C16: both evaluation runs are made under the metrics tag with the
\* evaluation-mode flag as their command (FAKE_Y for synthetic data,
\* DISABLED otherwise) and mount the prediction directory read-write, the
\* opener file read-only, the data directory read-only unless the data is
\* synthetic, and nothing else; the train evaluation is given the train
\* prediction directory, opener and data, the test evaluation the test
\* ones.
C16_EvaluationRuns ==
    /\ RunsCalled = 2 =>
          EvaluationCall(params.train_pred_path, params.train_opener_file,
                         params.train_data_path)
    /\ RunsCalled = 4 =>
          EvaluationCall(params.test_pred_path, params.test_opener_file,
                         params.test_data_path)

C16_Witness ==
    /\ pc = "perf_test_ret"
    /\ ~params.fake_data_samples
    /\ call.command = "--fake-data-mode DISABLED"
    /\ DOMAIN call.volumes = {params.test_pred_path, params.test_opener_file,
                              params.test_data_path}

\* The positions at which containers.run has returned or raised and
\* _docker_run has still to act on it.
ReturnStages ==
    {"train_run_ret", "perf_train_ret", "test_run_ret", "perf_test_ret"}

\* The latest container exited with a non-zero status.
ExitedNonZero == exc.type = "ContainerError"

\* The standard error of the latest container is bytes that decode as UTF-8.
StderrDecodes == exc.stderr \notin {"<not utf-8>", "<None>"}

\* C17: when a container exits with a non-zero status and its standard error
\* decodes as UTF-8, the run does not return: it raises an Exception whose
\* message holds the command, the image tag, the exit status and the decoded
\* standard error.
C17_StructuredFailure ==
    ExitedNonZero /\ StderrDecodes =>
        /\ pc \in ReturnStages \cup {"failed"}
        /\ pc = "failed" =>
              /\ error.type = "Exception"
              /\ error.msg =
                    "Command '" \o call.command \o "' in image '"
                      \o call.name \o "' returned non-zero exit status "
                      \o ToString(exc.exit_status) \o ":\n" \o exc.stderr

C17_Witness ==
    /\ pc = "failed"
    /\ exc = ContainerError("boom")
    /\ error.msg = "Command '--fake-data-mode FAKE_Y' in image "
                     \o "'metrics_run_local' returned non-zero exit status "
                     \o "1:\nboom"

\* C18: when a container exits with a non-zero status and its standard error
\* is absent or does not decode, the run does not return and the error that
\* escapes is the engine's ContainerError itself, unchanged.
C18_UndecodableReraised ==
    ExitedNonZero /\ ~StderrDecodes =>
        /\ pc \in ReturnStages \cup {"failed"}
        /\ pc = "failed" => error = exc

C18_Witness ==
    /\ pc = "failed"
    /\ RunsCalled = 3
    /\ error = ContainerError("<None>")

\* C19: an error of the engine that is not a non-zero exit escapes the run
\* unchanged: it is not turned into the Exception of a failed command and
\* the run does not return.
C19_EngineErrorUnchanged ==
    exc # NoError /\ ~ExitedNonZero =>
        /\ exc = APIError
        /\ pc \in ReturnStages \cup {"failed"}
        /\ pc = "failed" => error = exc /\ error.type # "Exception"

C19_Witness ==
    /\ pc = "failed"
    /\ RunsCalled = 1
    /\ exc = APIError
    /\ error = APIError

\* C20: every container run of the pipeline (train, train evaluation,
\* predict, test evaluation) asks the engine to remove the container once it
\* has run, so that whether the run has returned or failed the engine holds
\* no container of the pipeline.
C20_ContainersRemoved ==
    /\ RunsCalled > 0 => call.remove
    /\ containers = 0

C20_Witness ==
    /\ RunsCalled = 4
    /\ pc = "failed"
    /\ ExitedNonZero
    /\ call.remove
    /\ containers = 0

\* C21: every container run of the pipeline is asked to execute as the
\* numeric identity of the calling user, with user namespaces set to host;
\* no run is left to the identity the container would have by default
\* (root, 0).
C21_RunsAsCallingUser ==
    RunsCalled > 0 =>
        /\ call.user = USER
        /\ call.user # 0
        /\ call.userns_mode = "host"

C21_Witness ==
    /\ pc = "perf_test_ret"
    /\ call.name = DOCKER_METRICS_TAG
    /\ call.user = USER
    /\ call.userns_mode = "host"

\* The values stored at key "all" of perf.json in directory dir of f.
ValuesAtAll(f, dir) ==
    LET perf_file == dir \o <<"perf.json">>
    IN  IF perf_file \notin DOMAIN f.files THEN {}
        ELSE {kv[2] : kv \in {x \in f.files[perf_file].obj : x[1] = "all"}}

\* C22: the score an evaluation reports is the value at key "all" of
\* perf.json in its prediction directory as the file was when its metrics
\* run returned, whatever other keys the file has; the train score is read
\* in the train prediction directory and the test score in the test
\* prediction directory, and a score once read does not change.
C22_ScoreIsValueAtAll ==
    [][ /\ pc \in {"perf_train_ret", "perf_test_ret"} => fs' = fs
        /\ pc = "perf_train_read" /\ pc' # "failed" =>
              /\ Cardinality(train_perf') = 1
              /\ train_perf' = ValuesAtAll(fs, params.train_pred_path)
        /\ pc = "perf_test_read" /\ pc' # "failed" =>
              /\ Cardinality(test_perf') = 1
              /\ test_perf' = ValuesAtAll(fs, params.test_pred_path)
        /\ pc # "perf_train_read" => train_perf' = train_perf
        /\ pc # "perf_test_read" => test_perf' = test_perf ]_vars

C22_Witness ==
    /\ pc = "done"
    /\ train_perf = {100}
    /\ test_perf = {42}
    /\ fs.files[params.train_pred_path \o <<"perf.json">>].obj
          = {<<"all", 100>>, <<"other", 1>>}

\* perf.json in directory dir of f is missing, is not JSON, or has no key
\* "all": the name of the error that reading it raises, "" when it is fine.
PerfFileFault(f, dir) ==
    LET perf_file == dir \o <<"perf.json">>
    IN  IF perf_file \notin DOMAIN f.files THEN "FileNotFoundError"
        ELSE IF ~f.files[perf_file].json THEN "JSONDecodeError"
        ELSE IF ValuesAtAll(f, dir) = {} THEN "KeyError"
        ELSE ""

\* The builds the invocation has asked for.
BuildsCalled == Len(SelectSeq(trace, LAMBDA o : o.op = "build"))

\* The pipeline has stopped at the reading of perf.json in directory dir.
StoppedAtRead(dir) ==
    pc = "failed" /\ Last(trace).op = "read" /\ Last(trace).path = dir

\* C23: when perf.json is missing, is not JSON or lacks the key "all" after
\* an evaluation run has returned, the evaluation fails with the error of
\* that fault and no score, and the pipeline stops: after a failed train
\* evaluation no build and no run of the testing phase is made.
C23_BadPerfFileIsFatal ==
    /\ [][ /\ pc = "perf_train_read"
              /\ PerfFileFault(fs, params.train_pred_path) # "" =>
                  /\ pc' = "failed"
                  /\ error'.type = PerfFileFault(fs, params.train_pred_path)
                  /\ train_perf' = NoScore
           /\ pc = "perf_test_read"
              /\ PerfFileFault(fs, params.test_pred_path) # "" =>
                  /\ pc' = "failed"
                  /\ error'.type = PerfFileFault(fs, params.test_pred_path)
                  /\ test_perf' = NoScore
           /\ pc = "failed" => trace' = trace ]_vars
    /\ [](StoppedAtRead(params.train_pred_path) =>
              /\ BuildsCalled = 2
              /\ RunsCalled = 2
              /\ images[DOCKER_METRICS_TAG] = params.metrics_path
              /\ train_perf = NoScore /\ test_perf = NoScore)

C23_Witness ==
    /\ StoppedAtRead(params.train_pred_path)
    /\ error.type = "KeyError"
    /\ exc = NoError
    /\ fs.files[params.train_pred_path \o <<"perf.json">>].obj
          = {<<"other", 1>>}

\* C24: a container is run under a tag only after a build under that tag
\* has returned successfully earlier in the same invocation (the tag then
\* names an image), and a build that fails is the last operation of the
\* invocation: no container is run after it.
C24_RunOnlyAfterBuild ==
    /\ \A i \in DOMAIN trace :
          trace[i].op = "run" =>
              \E j \in 1..(i - 1) :
                  trace[j].op = "build" /\ trace[j].tag = trace[i].tag
    /\ RunsCalled > 0 => images[call.name] # <<>>
    /\ \A t \in DOMAIN images :
          images[t] = <<>> => \A i \in DOMAIN trace : trace[i].tag # t
                              \/ (i = Len(trace) /\ pc = "failed")
    /\ error.type = "BuildError" =>
          pc = "failed" /\ Last(trace).op = "build"

C24_Witness ==
    /\ pc = "failed"
    /\ error = Raised("BuildError", DOCKER_METRICS_TAG)
    /\ RunsCalled = 3
    /\ BuildsCalled = 4

\* The requests of one method that Client.add has sent.
Sent(method) == SelectSeq(sent, LAMBDA q : q.method = method)

\* The POST of the call has been answered.
PostAnswered == client.pc \notin {"idle", "post"}

\* The SDK exception that belongs to an HTTP error status.
ExceptionOfStatus(status) ==
    CASE status = 400 -> "InvalidRequest"
      [] status = 401 -> "AuthenticationError"
      [] status = 403 -> "AuthorizationError"
      [] status = 404 -> "NotFound"
      [] status = 408 -> "RequestTimeout"
      [] status = 409 -> "AlreadyExists"
      [] status = 500 -> "InternalServerError"
      [] OTHER -> "HTTPError"

\* C25: Client.add sends its POST once per call; with retry and exist_ok
\* disabled an HTTP error status of the POST is raised as the SDK exception
\* of that status (400 InvalidRequest, 401 AuthenticationError, 403
\* AuthorizationError, 404 NotFound, 408 RequestTimeout, 409 AlreadyExists,
\* 500 InternalServerError, any other HTTPError) and no other request is
\* sent.
C25_PostOnceAndStatusRaised ==
    /\ Len(Sent("post")) = (IF PostAnswered THEN 1 ELSE 0)
    /\ /\ client.pc \notin {"idle", "post", "posted"}
       /\ client.retry_timeout = 0 /\ ~client.exist_ok
       /\ client.response.fault = "" /\ client.response.status >= 400
       => /\ client.pc = "raised"
          /\ client.raised = ExceptionOfStatus(client.response.status)
          /\ sent = <<[method |-> "post", key |-> ""]>>

C25_Witness ==
    /\ client.pc = "raised"
    /\ client.retry_timeout = 0 /\ ~client.exist_ok
    /\ client.response.status = 408
    /\ client.raised = "RequestTimeout"
    /\ Len(sent) = 1

\* The POST has been answered with `status` and the key or keys `key`, and
\* add has not yet acted on the answer.
PostAnsweredWith(status, key) ==
    /\ client.pc = "posted"
    /\ client.response.fault = ""
    /\ client.response.status = status
    /\ client.response.pkhash = key

\* The answer to the latest request is the asset asked for.
AnsweredWithAsset ==
    /\ client.response.fault = ""
    /\ client.response.status = 200
    /\ client.response.json

\* C26: when the POST of Client.add answers 408 with one asset key and the
\* retry timeout is not zero, add posts no second time: it GETs the asset by
\* that key, GETs it again only after an answer NotFound and only while the
\* retry timeout has not passed, and returns the asset a GET fetches; when
\* the first GET fetches it, one POST and one GET have been sent.
C26_TimeoutFetchesByKey ==
    /\ [][ /\ PostAnsweredWith(408, "a-key") /\ client.retry_timeout > 0 =>
                /\ client'.pc = "retry"
                /\ client'.key = "a-key"
                /\ sent' = sent
           /\ client.pc = "retry" =>
                /\ client'.pc = "retried"
                /\ sent' = Append(sent, [method |-> "get", key |-> "a-key"])
           /\ client.pc = "retried" =>
                /\ sent' = sent
                /\ client'.pc =
                      IF AnsweredWithAsset THEN "returned"
                      ELSE IF client.response.status = 404
                              /\ client.waited < client.retry_timeout
                      THEN "retry"
                      ELSE "raised"
                /\ client'.pc = "returned" => client'.result = "a-key"
                /\ client'.pc = "retry" => client'.waited = client.waited + 1
         ]_vars
    /\ [](client.pc \in {"retry", "retried"} =>
              /\ Len(Sent("post")) = 1
              /\ Len(Sent("get")) =
                    client.waited + (IF client.pc = "retried" THEN 1 ELSE 0)
              /\ client.waited <= client.retry_timeout)
    /\ [](client.pc = "returned" /\ client.key # "" /\ client.waited = 0 =>
              /\ sent = <<[method |-> "post", key |-> ""],
                          [method |-> "get", key |-> client.key]>>
              /\ client.result = client.key)

C26_Witness ==
    /\ client.pc = "returned"
    /\ client.retry_timeout = 2
    /\ client.waited = 1
    /\ client.result = "a-key"
    /\ Len(Sent("post")) = 1
    /\ Len(Sent("get")) = 2

\* C27: when the POST of Client.add answers 409 with one asset key and
\* exist_ok is true, add sends exactly one GET for that key and returns the
\* asset it fetches, AlreadyExists is not raised; when exist_ok is false, or
\* the answer carries a list of keys, AlreadyExists is raised and no GET is
\* sent.
C27_ExistOkFetchesOnce ==
    /\ [][ /\ PostAnsweredWith(409, "a-key") /\ client.exist_ok =>
                /\ client'.pc = "get"
                /\ client'.key = "a-key"
                /\ sent' = sent
           /\ \E k \in {"a-key", "<list>"} :
                 /\ PostAnsweredWith(409, k)
                 /\ ~client.exist_ok \/ k = "<list>"
              => /\ client'.pc = "raised"
                 /\ client'.raised = "AlreadyExists"
                 /\ sent' = sent
           /\ client.pc = "get" =>
                /\ client'.pc = "got"
                /\ sent' = Append(sent, [method |-> "get", key |-> "a-key"])
           /\ client.pc = "got" =>
                /\ sent' = sent
                /\ IF AnsweredWithAsset
                   THEN client'.pc = "returned" /\ client'.result = "a-key"
                   ELSE client'.pc = "raised"
                        /\ client'.raised # "AlreadyExists"
         ]_vars
    /\ [](client.raised = "AlreadyExists" => Sent("get") = <<>>)
    /\ [](client.pc = "got" =>
              /\ Len(Sent("post")) = 1
              /\ Sent("get") = <<[method |-> "get", key |-> "a-key"]>>)

C27_Witness ==
    /\ client.pc = "returned"
    /\ client.exist_ok
    /\ client.retry_timeout = 0
    /\ client.result = "a-key"
    /\ Len(Sent("post")) = 1
    /\ Len(Sent("get")) = 1

\* Invocation p has found an artifact of its own gone: a link, the model or
\* a perf.json that it had produced was absent when it came to use it.
FoundGone(p) ==
    \/ \E s \in inv[p].seen : s[2] = "absent"
    \/ inv[p].pc = "failed"
       /\ inv[p].error \in {"Exception", "FileNotFoundError"}

\* Invocation p has used a model or a perf.json that a container of the
\* other invocation wrote.
UsedForeign(p) == \E s \in inv[p].seen : s[2] = Writer(Other(p))

\* C28: two invocations that overlap on one sandbox root can corrupt each
\* other's artifacts, and nothing in the pipeline prevents it: an invocation
\* in flight can always take its next step, whatever the other is doing; its
\* reset removes every file under the root, the other's too; and an
\* invocation fails, finds an artifact of its own gone or uses one the other
\* wrote only when the two overlapped.  (That such a state is reached is the
\* witness.)
C28_OverlapCorrupts ==
    /\ [](\A p \in Invocations :
              inv[p].pc \notin {"done", "failed"} => ENABLED InvNext(p))
    /\ [][\A p \in Invocations :
              inv[p].pc = "clean_sandbox" /\ inv'[p].pc # "clean_sandbox" =>
                  FilesUnder(fs', params.compute_path) = {}]_vars
    /\ [](\A p \in Invocations :
              FoundGone(p) \/ UsedForeign(p) \/ inv[p].pc = "failed" =>
                  inv[p].overlapped)

C28_Witness ==
    /\ <<"model", Writer(1)>> \in inv[1].seen
    /\ <<"model", "absent">> \in inv[1].seen
    /\ <<"perf", Writer(1)>> \in inv[2].seen
    /\ inv[2].pc = "done"

\* Invocation p has ended, in success or abort.
Ended(p) == inv[p].pc \in {"done", "failed"}

\* C29: when the engine eventually answers every build and run call,
\* normally or with an error, every invocation eventually ends, in success
\* or abort, having made at most four builds and four runs; and an
\* invocation leaves a stage at which it waits for the engine only by the
\* engine's answer to that call: when the answer never comes it stays
\* there, no step of the pipeline times the call out.
C29_EndsWhenEngineAnswers ==
    /\ \A p \in Invocations : <>Ended(p)
    /\ [](\A p \in Invocations : inv[p].builds <= 4 /\ inv[p].runs <= 4)
    /\ [][ \A p \in Invocations :
              /\ inv[p].pc \in InvBuildStages /\ inv'[p].pc # inv[p].pc =>
                    inv'[p].builds = inv[p].builds + 1
              /\ inv[p].pc \in InvRunStages /\ inv'[p].pc # inv[p].pc =>
                    inv'[p].runs = inv[p].runs + 1
              /\ Ended(p) => inv'[p] = inv[p]
         ]_vars

C29_Witness ==
    /\ inv[1].pc = "done"
    /\ inv[1].builds = 4 /\ inv[1].runs = 4
    /\ inv[2].pc = "failed"
    /\ inv[2].error = "RunError"
    /\ inv[2].runs = 3

\* The directory of the most recent build under tag among the first i - 1
\* operations, <<>> when there is none.
LastBuilt(i, tag) ==
    LET js == {j \in 1..(i - 1) : trace[j].op = "build" /\ trace[j].tag = tag}
    IN  IF js = {} THEN <<>>
        ELSE trace[CHOOSE j \in js : \A k \in js : k <= j].path

\* The directory a tag's image is to be made from when a container is run
\* under it.
SourceOf(tag) ==
    IF tag = DOCKER_METRICS_TAG THEN params.metrics_path ELSE params.algo_path

\* C30: whenever a container is run under the metrics tag the most recent
\* build under that tag was made from the metrics directory, and whenever
\* one is run under the algo tag the most recent build under that tag was
\* made from the algorithm directory, the tag naming that image at the
\* call; the testing phase first rebuilds the metrics tag from the
\* algorithm directory and rebuilds it from the metrics directory before
\* the test evaluation is run.
C30_RunsUseTheirOwnImage ==
    /\ [](\A i \in DOMAIN trace :
              trace[i].op = "run" =>
                  /\ trace[i].tag \in {DOCKER_ALGO_TAG, DOCKER_METRICS_TAG}
                  /\ LastBuilt(i, trace[i].tag) = SourceOf(trace[i].tag))
    /\ [][ /\ RunsCalled' = RunsCalled + 1 =>
                 images[call'.name] = SourceOf(call'.name)
           /\ pc = "test_build" /\ pc' # "failed" =>
                 /\ images[DOCKER_METRICS_TAG] = params.metrics_path
                 /\ images'[DOCKER_METRICS_TAG] = params.algo_path
           /\ pc = "test_build_metrics" /\ pc' # "failed" =>
                 /\ images[DOCKER_METRICS_TAG] = params.algo_path
                 /\ images'[DOCKER_METRICS_TAG] = params.metrics_path ]_vars

C30_Witness ==
    /\ RunsCalled = 4
    /\ call.name = DOCKER_METRICS_TAG
    /\ \E j \in DOMAIN trace :
          /\ trace[j].op = "build"
          /\ trace[j].tag = DOCKER_METRICS_TAG
          /\ trace[j].path = params.algo_path
    /\ LastBuilt(Len(trace), DOCKER_METRICS_TAG) = params.metrics_path
    /\ params.metrics_path # params.algo_path

\* The file at path exists and was written by a container of this
\* invocation, hence after its reset.
WrittenByThisRun(f, path) ==
    path \in DOMAIN f.files /\ f.files[path].by = "run"

\* What an earlier run left at path under the sandbox root.
LeftByEarlierRun(path) ==
    /\ IsPrefix(params.compute_path, path)
    /\ path \in DOMAIN host0.files

\* C31: the output model the pipeline accepts and every perf.json it reads
\* a score from were written after this invocation's reset: a model or a
\* score an earlier run left under the sandbox root is never accepted or
\* reported, even when the containers of this run write nothing.
C31_NothingFromEarlierRun ==
    /\ [][ /\ pc = "train_check" /\ pc' # "failed" =>
                 WrittenByThisRun(fs, params.outmodel_file)
           /\ pc = "perf_train_read" /\ pc' # "failed" =>
                 WrittenByThisRun(fs, params.train_pred_path \o <<"perf.json">>)
           /\ pc = "perf_test_read" /\ pc' # "failed" =>
                 WrittenByThisRun(fs, params.test_pred_path \o <<"perf.json">>)
           /\ pc \in {"train_check", "perf_train_read", "perf_test_read"} =>
                 \A p \in { params.outmodel_file,
                            params.train_pred_path \o <<"perf.json">>,
                            params.test_pred_path \o <<"perf.json">> } :
                     p \in DOMAIN fs.files => fs.files[p].by = "run" ]_vars
    /\ [](pc \notin {"cli", "usage_error", "clean_sandbox"}
              /\ ~(pc = "failed" /\ Last(trace).op = "reset") =>
                 \A p \in DOMAIN fs.files :
                     IsPrefix(params.compute_path, p) =>
                         \/ fs.files[p].by = "run"
                         \/ \E i \in DOMAIN trace :
                               trace[i].op = "link" /\ trace[i].path = p)

C31_Witness ==
    /\ pc = "done"
    /\ LeftByEarlierRun(params.outmodel_file)
    /\ LeftByEarlierRun(params.train_pred_path \o <<"perf.json">>)
    /\ host0.files[params.test_pred_path \o <<"perf.json">>].obj = {<<"all", 42>>}
    /\ train_perf = {100}
    /\ test_perf = {42}
    /\ fs.files[params.test_pred_path \o <<"perf.json">>].by = "run"

\* The positions of the input models that lie under the sandbox root.
UnderRoot(q) ==
    {i \in DOMAIN q.inmodels : IsPrefix(q.compute_path, AbsPath(q.inmodels[i]))}

\* The first of them.
FirstUnderRoot(q) == CHOOSE i \in UnderRoot(q) : \A j \in UnderRoot(q) : i <= j

\* Two of the first n input models have the same absolute path.
RepeatedAmong(q, n) ==
    \E i, j \in 1..n : i < j /\ AbsPath(q.inmodels[i]) = AbsPath(q.inmodels[j])

LinksMade == Len(SelectSeq(trace, LAMBDA o : o.op = "link"))

\* C32: the reset leaves every directory and file outside the sandbox root
\* as it was, and removes an input model that lies under the root.  An
\* invocation given such a model never runs a container: it makes the algo
\* build and stops there or at the link stage, where the link of the
\* removed model raises FileNotFoundError after the links of the models
\* before it were made (unless two of those are the same file, whose second
\* link fails first).
C32_InModelUnderRootAborts ==
    /\ [][ pc = "clean_sandbox" =>
              /\ \A d \in fs.dirs :
                    ~IsPrefix(params.compute_path, d) => d \in fs'.dirs
              /\ \A p \in DOMAIN fs.files :
                    ~IsPrefix(params.compute_path, p) =>
                        p \in DOMAIN fs'.files /\ fs'.files[p] = fs.files[p]
              /\ \A p \in DOMAIN fs'.files :
                    ~IsPrefix(params.compute_path, p) => p \in DOMAIN fs.files
              /\ pc' # "failed" =>
                    \A i \in UnderRoot(params) :
                        ~Exists(fs', AbsPath(params.inmodels[i])) ]_vars
    /\ [](Started /\ pc # "clean_sandbox" /\ UnderRoot(params) # {} =>
              LET first == FirstUnderRoot(params)
              IN  /\ pc \in {"train_build", "train_link", "failed"}
                  /\ RunsCalled = 0
                  /\ command = ""
                  /\ \A i \in UnderRoot(params) :
                        ~Exists(fs, AbsPath(params.inmodels[i]))
                  /\ pc = "failed" =>
                        /\ BuildsCalled = 1
                        /\ Last(trace).op \in {"build", "link"}
                        /\ error.type \in {"BuildError", "FileNotFoundError",
                                            "FileExistsError"}
                  /\ LinkStageFailed =>
                        IF RepeatedAmong(params, first - 1)
                        THEN error.type = "FileExistsError"
                        ELSE /\ error = Raised("FileNotFoundError",
                                    PathStr(AbsPath(params.inmodels[first])))
                             /\ LinksMade = first - 1)

C32_Witness ==
    /\ LinkStageFailed
    /\ params.inmodels = << <<"m1">>, <<"sandbox", "model", "model">> >>
    /\ params.outmodel_file \in DOMAIN host0.files
    /\ error.type = "FileNotFoundError"
    /\ LinksMade = 1
    /\ fs.files[<<"/", "cwd", "m1">>] = host0.files[<<"/", "cwd", "m1">>]

\* The position of the first input model whose absolute path is that of an
\* earlier one.
FirstRepeated(q) ==
    CHOOSE j \in DOMAIN q.inmodels :
        /\ RepeatedAmong(q, j)
        /\ ~RepeatedAmong(q, j - 1)

\* The link the pipeline makes for input model i.
LinkOf(q, i) ==
    q.outmodel_path \o <<Sha256Hex(PathStr(AbsPath(q.inmodels[i])))>>

\* The link stage changes no file that exists, makes no link twice, and
\* the output-model directory holds one entry for each link made.
LinkStageOverwritesNothing ==
    pc = "train_link" =>
        /\ \A p \in DOMAIN fs.files :
              p \in DOMAIN fs'.files /\ fs'.files[p] = fs.files[p]
        /\ \A i, j \in DOMAIN trace' :
              trace'[i].op = "link" /\ trace'[j].op = "link" /\ i # j
                  => trace'[i].path # trace'[j].path
        /\ Cardinality(OutmodelFiles(fs', params)) = LinksMade'

\* The position of the first input model that has the path of model j.
FirstSpelling(q, j) ==
    CHOOSE i \in 1..j :
        /\ AbsPath(q.inmodels[i]) = AbsPath(q.inmodels[j])
        /\ \A k \in 1..(i - 1) :
              AbsPath(q.inmodels[k]) # AbsPath(q.inmodels[j])

\* C33 as stated: when two entries of the input-model list have the same
\* absolute path the training run is not reached, the link stage fails at
\* the second of the two because its name exists, and the link of the
\* first is left in place; the link stage overwrites nothing.
C33_SecondLinkAlwaysFails ==
    /\ [][LinkStageOverwritesNothing]_vars
    /\ [](pc \notin {"call", "clean_sandbox"}
              /\ RepeatedAmong(params, Len(params.inmodels)) =>
              LET second == FirstRepeated(params)
              IN  /\ pc \in {"train_build", "train_link", "failed"}
                  /\ LinkStageFailed =>
                        /\ error = Raised("FileExistsError",
                                          PathStr(LinkOf(params, second)))
                        /\ LinkOf(params, FirstSpelling(params, second))
                              \in DOMAIN fs.files)

\* C33, amended: when two entries of the input-model list have the same
\* absolute path, however each is spelled, the training run is not
\* reached.  When every model before the second of the two is there after
\* the reset, the link of the second raises FileExistsError and the links
\* made before it, the first of the two among them, are left in place;
\* when one of them is missing, as is a model under the sandbox root, its
\* link raises FileNotFoundError first.  The link stage changes no file
\* that exists and makes no link twice.
C33_RepeatedInModelAborts ==
    /\ [][LinkStageOverwritesNothing]_vars
    /\ [](pc \notin {"call", "clean_sandbox"}
              /\ RepeatedAmong(params, Len(params.inmodels)) =>
              LET second == FirstRepeated(params)
              IN  /\ pc \in {"train_build", "train_link", "failed"}
                  /\ command = ""
                  /\ LinkStageFailed =>
                        IF \E k \in 1..(second - 1) :
                              AbsPath(params.inmodels[k]) \notin DOMAIN fs.files
                        THEN error.type = "FileNotFoundError"
                        ELSE /\ error = Raised("FileExistsError",
                                    PathStr(LinkOf(params, second)))
                             /\ LinksMade = second - 1
                             /\ \A k \in 1..(second - 1) :
                                   /\ LinkOf(params, k) \in DOMAIN fs.files
                                   /\ fs.files[LinkOf(params, k)] =
                                         host0.files[AbsPath(params.inmodels[k])])

C33_Witness ==
    /\ LinkStageFailed
    /\ params.inmodels = << <<"m1">>, <<".", "m1">> >>
    /\ error.type = "FileExistsError"
    /\ OutmodelFiles(fs, params) = {LinkOf(params, 1)}
    /\ fs.files[LinkOf(params, 1)] = Json("earlier", {<<"all", 42>>})

====
